---- MODULE Spec2Model ----
(***************************************************************************)
(* Software shop (Flask + sqlite3): cart engine, checkout pipeline and     *)
(* review ledger of src/db.py with the routes of src/app.py that call      *)
(* them.                                                                   *)
(*                                                                         *)
(* Store model.  Every db.py function opens its own connection             *)
(* (get_db_connection) and closes it in a finally block.  The sqlite3      *)
(* module runs SELECTs issued before the first INSERT/UPDATE/DELETE in     *)
(* autocommit mode, opens a transaction implicitly before the first        *)
(* INSERT/UPDATE/DELETE, and closing a connection without commit() rolls   *)
(* the open transaction back.  SQLite allows one write transaction at a    *)
(* time; other connections read the last committed state.  Hence:          *)
(*   db    the committed database,                                         *)
(*   lock  the process holding the write transaction (0: none),            *)
(*   tx    the writer's working copy (equal to db when lock = 0),          *)
(*   proc  per request-handling process: the running function, its         *)
(*         position, arguments and local variables.                        *)
(***************************************************************************)
EXTENDS Integers, FiniteSets, Sequences, TLC

VARIABLES db, tx, lock, proc

vars == <<db, tx, lock, proc>>

---------------------------------------------------------------------------
(* Bounds of the model *)

NUsers == 2
\* users (each with a cart) present after seeding
NSoftware == 2
\* software rows present after seeding
NProcs == 2
\* concurrent request-handling processes
MaxQty == 2
\* largest quantity of a cart line
MaxPrice == 1
\* largest catalog price
MaxLineId == 2
\* cap on the cart_items AUTOINCREMENT counter
MaxPurchases == 2
\* cap on the purchase_history AUTOINCREMENT counter
NCategories == 2
\* categories present after seeding

UserIds == 1..NUsers
SoftwareIds == 1..NSoftware
CategoryIds == 1..NCategories
PurchaseIds == 1..MaxPurchases
Procs == 1..NProcs
Prices == 0..MaxPrice
\* add_to_cart_route passes only quantities > 0 on to add_to_cart
AddQtys == 1..MaxQty
QtyInputs == 0..MaxQty
LineIds == 1..MaxLineId
MaxUsers == 3
\* cap on the users AUTOINCREMENT counter (seeded and registered users)
MaxSoftwareId == 4
\* cap on the software AUTOINCREMENT counter (seeded and reseeded items)
MaxCategoryId == 4
\* cap on the categories AUTOINCREMENT counter
MaxTime == 2
\* latest value of CURRENT_TIMESTAMP (the store starts at time 0)
MaxDownloads == 2
\* cap on the downloads that increment_downloads alone counts up to
MaxReviewId == 2
\* cap on the reviews AUTOINCREMENT counter
ReviewIds == 1..MaxReviewId

\* rating >= 1 AND rating <= 5 (reviews table, add_software_review, add_review_route)
MinRating == 1
MaxRating == 5
\* ratings submitted: below the range (what a non-numeric form value becomes),
\* two values of the range with a fractional mean, above the range
RatingInputs == {0, MaxRating - 1, MaxRating, MaxRating + 1}
\* review texts submitted: empty or not
Texts == {"", "a"}
\* every user id the store can hand out, and the e-mail addresses of
\* registrations (seeded user u has address u)
AllUserIds == 1..MaxUsers
Emails == 1..MaxUsers
\* role IN ('user', 'moder', 'admin')
Roles == {"user", "moder", "admin"}
\* the seeded users in the order of users_data: the administrator, the
\* ordinary user, the moderator
SeedRole(u) == IF u = 1 THEN "admin" ELSE IF u = 2 THEN "user" ELSE "moder"
\* arguments that name no row: a user id without a users or cart row, a
\* software id without a software row
NoCartUser == NUsers + 1
NoSoftware == NSoftware + 1
\* names and developers of catalog items: the seeded one and an edited one
Names == {"name1", "name2"}
Developers == {"dev1", "dev2"}

---------------------------------------------------------------------------
(* Connection settings *)

\* get_db_connection never issues PRAGMA foreign_keys = ON, so SQLite leaves
\* the FOREIGN KEY clauses of the schema unenforced on every connection.
ForeignKeysEnabled == FALSE

---------------------------------------------------------------------------
(* Queries *)

\* SELECT COALESCE(SUM(quantity * price_at_add), 0) FROM <lines>
RECURSIVE SumLines(_)
SumLines(S) ==
    IF S = {} THEN 0
    ELSE LET l == CHOOSE x \in S : TRUE
         IN  l.quantity * l.price_at_add + SumLines(S \ {l})

\* SELECT ... FROM cart_items WHERE cart_id = cid
LinesOfCart(d, cid) == {l \in d.cart_items : l.cart_id = cid}

\* SELECT ... FROM cart WHERE user_id = u
CartOfUser(d, u) == {c \in d.cart : c.user_id = u}

\* fault: a line mutation that leaves the stored total as it was
RecomputeTotalStale(d, cid) == d

\* UPDATE cart SET total_price = (SELECT COALESCE(SUM(...), 0) FROM cart_items
\*                                WHERE cart_id = cid) WHERE id = cid
RecomputeTotal(d, cid) ==
    [d EXCEPT !.cart =
        {IF c.id = cid
            THEN [c EXCEPT !.total_price = SumLines(LinesOfCart(d, cid))]
            ELSE c : c \in d.cart}]

\* cart_items ci JOIN software s ON ci.software_id = s.id WHERE ci.cart_id = cid
JoinedLines(d, cid) ==
    {l \in LinesOfCart(d, cid) : \E s \in d.software : s.id = l.software_id}

\* get_cart_items: cart_items JOIN cart JOIN software WHERE cart.user_id = u
get_cart_items(d, u) ==
    {l \in d.cart_items :
        /\ \E c \in d.cart : c.id = l.cart_id /\ c.user_id = u
        /\ \E s \in d.software : s.id = l.software_id}

\* REAL values of rating_avg: exact fractions in lowest terms; den = 0 is NULL
RECURSIVE GCD(_, _)
GCD(a, b) == IF b = 0 THEN a ELSE GCD(b, a % b)

Fraction(n, d) == [num |-> n \div GCD(n, d), den |-> d \div GCD(n, d)]

Zero == [num |-> 0, den |-> 1]

NULL == [num |-> 0, den |-> 0]

RECURSIVE SumRatings(_)
SumRatings(S) ==
    IF S = {} THEN 0
    ELSE LET r == CHOOSE x \in S : TRUE IN r.rating + SumRatings(S \ {r})

\* SELECT AVG(rating) FROM reviews WHERE software_id = s (NULL over no rows)
AvgRating(d, s) ==
    LET rows == {r \in d.reviews : r.software_id = s}
    IN  IF rows = {} THEN NULL ELSE Fraction(SumRatings(rows), Cardinality(rows))

\* Python's "x or 0.0": None and 0.0 both give 0.0
OrZero(x) == IF x.num = 0 THEN Zero ELSE x

\* fault: a review write that leaves the stored average as it was
SetRatingAvgStale(d, s, avg) == d

\* UPDATE software SET rating_avg = avg WHERE id = s
SetRatingAvg(d, s, avg) ==
    [d EXCEPT !.software =
        {IF x.id = s THEN [x EXCEPT !.rating_avg = avg] ELSE x : x \in d.software}]

\* fault: the query without its status condition
user_has_purchased_software_any_status(d, u, s) ==
    \E pi \in d.purchase_items : \E ph \in d.purchase_history :
        /\ ph.id = pi.purchase_id
        /\ ph.user_id = u
        /\ pi.software_id = s

\* user_has_purchased_software: purchase_items JOIN purchase_history
\* WHERE ph.user_id = u AND pi.software_id = s AND ph.status = 'completed'
user_has_purchased_software(d, u, s) ==
    \E pi \in d.purchase_items : \E ph \in d.purchase_history :
        /\ ph.id = pi.purchase_id
        /\ ph.user_id = u
        /\ pi.software_id = s
        /\ ph.status = "completed"

---------------------------------------------------------------------------
(* Processes *)

\* what a route hands to render_template: the rows it has read
NoView == [purchase |-> {}, purchase_items |-> {}, cart |-> {}, cart_items |-> {}]

Idle ==
    [op |-> "none", pc |-> "idle", user |-> 0, sw |-> 0, qty |-> 0, item |-> 0,
     rating |-> 0, text |-> "", cart_id |-> 0, total |-> 0, price |-> 0, ex_id |-> 0, ex_qty |-> 0,
     todo |-> {}, pid |-> 0, view |-> NoView, user_role |-> "", res |-> "none"]

\* a call that has just been made
Start(o, u, s, q, i) ==
    [Idle EXCEPT !.op = o, !.user = u, !.sw = s, !.qty = q, !.item = i]

\* the function returned or raised: the connection is closed, locals are gone
Fin(r, result) ==
    [Idle EXCEPT !.op = r.op, !.pc = "done", !.user = r.user, !.pid = r.pid,
                 !.res = result]

Set(p, r) == proc' = [proc EXCEPT ![p] = r]

\* a step that reads the committed database and changes nothing in it
ReadOnly == UNCHANGED <<db, tx, lock>>

\* the first INSERT/UPDATE/DELETE of a connection: the implicit BEGIN takes the
\* write lock and the statements work on a private copy until commit
Begin(p, d) == lock' = p /\ tx' = d /\ UNCHANGED db

\* every statement has run; only conn.commit() is left
AtCommit(r) ==
    [Idle EXCEPT !.op = r.op, !.pc = "commit", !.user = r.user, !.sw = r.sw,
                 !.qty = r.qty, !.item = r.item, !.rating = r.rating,
                 !.text = r.text, !.cart_id = r.cart_id, !.pid = r.pid]

\* a statement raised before anything was written: nothing to roll back
Raise(p, result) == Set(p, Fin(proc[p], result)) /\ ReadOnly

---------------------------------------------------------------------------
(* Initial state: init_db() then seed_initial_data() *)

InitDb ==
    [users |-> {[id |-> u, email |-> u, role |-> SeedRole(u), is_active |-> TRUE]
                  : u \in UserIds},
     seq_users |-> NUsers,
     cart |-> {[id |-> u, user_id |-> u, total_price |-> 0] : u \in UserIds},
     seq_cart |-> NUsers,
     cart_items |-> {},
     seq_cart_items |-> 0,
     categories |-> {[id |-> c, name |-> c] : c \in CategoryIds},
     seq_categories |-> NCategories,
     seq_software |-> NSoftware,
     software |-> {[id |-> s, name |-> "name1", developer |-> "dev1", price |-> 1,
                    category_id |-> ((s - 1) % NCategories) + 1,
                    downloads |-> 0, rating_avg |-> Zero]
                      : s \in SoftwareIds},
     purchase_history |-> {},
     purchase_items |-> {},
     seq_purchase_history |-> 0,
     reviews |-> {},
     seq_reviews |-> 0,
     clock |-> 0]

Init ==
    /\ db = InitDb
    /\ tx = InitDb
    /\ lock = 0
    /\ proc = [p \in Procs |-> Idle]

---------------------------------------------------------------------------
(* seed_initial_data(), run after init_db() whenever the application starts *)

\* the database after init_db() alone: every table exists and is empty
EmptyDb ==
    [InitDb EXCEPT !.users = {}, !.seq_users = 0, !.cart = {}, !.seq_cart = 0,
                   !.categories = {}, !.seq_categories = 0,
                   !.software = {}, !.seq_software = 0]

\* existing_users == 0: INSERT INTO users and INSERT INTO cart for each entry
\* of users_data
SeedUsers(d) ==
    IF d.users # {} THEN d
    ELSE [d EXCEPT
             !.users = {[id |-> d.seq_users + k, email |-> k, role |-> SeedRole(k),
                         is_active |-> TRUE] : k \in 1..NUsers},
             !.seq_users = d.seq_users + NUsers,
             !.cart = d.cart \cup
                        {[id |-> d.seq_cart + k, user_id |-> d.seq_users + k,
                          total_price |-> 0] : k \in 1..NUsers},
             !.seq_cart = d.seq_cart + NUsers]

\* existing_cats == 0: INSERT INTO categories for each entry of categories_data
SeedCategories(d) ==
    IF d.categories # {} THEN d
    ELSE [d EXCEPT
             !.categories = {[id |-> d.seq_categories + k, name |-> k]
                               : k \in 1..NCategories},
             !.seq_categories = d.seq_categories + NCategories]

\* the category name of entry k of software_data
SeedCategoryName(k) == ((k - 1) % NCategories) + 1

\* the entries of software_data up to k whose category name is in the
\* categories table (category_id = cats.get(cat_name); the others are skipped)
SeedEntries(d, k) ==
    {j \in 1..k : \E c \in d.categories : c.name = SeedCategoryName(j)}

\* the rows that the loop over software_data inserts
SeedSoftwareRows(d) ==
    {[id |-> d.seq_software + Cardinality(SeedEntries(d, k)),
      name |-> "name1", developer |-> "dev1", price |-> 1,
      category_id |-> (CHOOSE c \in d.categories : c.name = SeedCategoryName(k)).id,
      downloads |-> 0, rating_avg |-> Zero] : k \in SeedEntries(d, NSoftware)}

\* fault: software_data is inserted whether or not the table holds rows
SeedSoftwareAlways(d) ==
    [d EXCEPT
        !.software = d.software \cup SeedSoftwareRows(d),
        !.seq_software = d.seq_software + Cardinality(SeedEntries(d, NSoftware))]

\* existing_sw == 0: INSERT INTO software for each entry of software_data
SeedSoftware(d) ==
    IF d.software # {} THEN d
    ELSE [d EXCEPT
             !.software = SeedSoftwareRows(d),
             !.seq_software = d.seq_software + Cardinality(SeedEntries(d, NSoftware))]

\* users, then categories, then software, and one commit
SeedAll(d) == SeedSoftware(SeedCategories(SeedUsers(d)))

\* seed_initial_data() as run by a starting application process
seed_initial_data(p) ==
    /\ proc[p].pc = "idle"
    /\ lock = 0
    /\ SeedAll(db).seq_users <= MaxUsers
    /\ SeedAll(db).seq_categories <= MaxCategoryId
    /\ SeedAll(db).seq_software <= MaxSoftwareId
    /\ db' = SeedAll(db)
    /\ tx' = db'
    /\ Set(p, Fin(Start("seed_initial_data", 0, 0, 0, 0), "ok"))
    /\ UNCHANGED lock

---------------------------------------------------------------------------
(* Transaction end, shared by every writing function *)

\* conn.commit(): the working copy becomes the committed database
commit(p) ==
    /\ lock = p
    /\ proc[p].pc = "commit"
    /\ db' = tx
    /\ tx' = tx
    /\ lock' = 0
    /\ Set(p, Fin(proc[p], "ok"))

\* fault: a failure that keeps what the transaction has written so far
store_failure_keeps_writes(p) ==
    /\ lock = p
    /\ db' = tx
    /\ tx' = tx
    /\ lock' = 0
    /\ Set(p, Fin([proc[p] EXCEPT !.pid = 0], "StoreFailure"))

\* any statement or the commit raises inside the open transaction (the store
\* fails): the finally block closes the connection, which rolls back
store_failure(p) ==
    /\ lock = p
    /\ tx' = db
    /\ lock' = 0
    /\ UNCHANGED db
    /\ Set(p, Fin([proc[p] EXCEPT !.pid = 0], "StoreFailure"))

WritePcs ==
    {"ac_write", "uq_write", "rm_write", "cc_write", "cp_insert", "ar_write",
     "rv_write", "dr_write"}

\* the write lock is held by another connection for longer than the busy
\* timeout: sqlite3.OperationalError "database is locked"
database_locked(p) ==
    /\ proc[p].pc \in WritePcs
    /\ lock \notin {0, p}
    /\ Raise(p, "StoreFailure")

\* the caller takes the result; the process is free for the next request
Return(p) ==
    /\ proc[p].pc = "done"
    /\ Set(p, Idle)
    /\ ReadOnly

---------------------------------------------------------------------------
(* add_user(email, password, name, phone, role) and delete_user(user_id) *)

\* INSERT INTO users (email, password, name, phone, role), with the role
\* 'user' that register() leaves at its default; UNIQUE(email) raises
\* IntegrityError; user_id = cursor.lastrowid
add_user_insert_user(p, e) ==
    /\ proc[p].pc = "idle"
    /\ lock = 0
    /\ LET r == Start("add_user", 0, 0, 0, 0)
           id == db.seq_users + 1
       IN  IF \E x \in db.users : x.email = e
             THEN Set(p, Fin(r, "IntegrityError")) /\ ReadOnly
             ELSE /\ id <= MaxUsers
                  /\ Begin(p, [db EXCEPT !.users = db.users \cup
                                   {[id |-> id, email |-> e, role |-> "user",
                                     is_active |-> TRUE]},
                                         !.seq_users = id])
                  /\ Set(p, [r EXCEPT !.pc = "au_cart", !.user = id])

\* fault: a registration that creates no cart
add_user_insert_cart_skipped(p) ==
    /\ proc[p].pc = "au_cart"
    /\ lock = p
    /\ Set(p, AtCommit(proc[p]))
    /\ UNCHANGED <<db, tx, lock>>

\* INSERT INTO cart (user_id, total_price) VALUES (user_id, 0); UNIQUE(user_id)
\* raises IntegrityError and the closed connection rolls the user row back;
\* commit follows
add_user_insert_cart(p) ==
    /\ proc[p].pc = "au_cart"
    /\ lock = p
    /\ LET r == proc[p]
       IN  IF \E c \in tx.cart : c.user_id = r.user
             THEN /\ tx' = db
                  /\ lock' = 0
                  /\ Set(p, Fin([r EXCEPT !.user = 0], "IntegrityError"))
                  /\ UNCHANGED db
             ELSE /\ tx' = [tx EXCEPT !.cart = tx.cart \cup
                                 {[id |-> tx.seq_cart + 1, user_id |-> r.user,
                                   total_price |-> 0]},
                                      !.seq_cart = tx.seq_cart + 1]
                  /\ Set(p, AtCommit(r))
                  /\ UNCHANGED <<db, lock>>

\* DELETE FROM users WHERE id = ? and commit; the ON DELETE CASCADE of
\* cart.user_id acts only on a connection that enforces foreign keys
delete_user(u) ==
    /\ lock = 0
    /\ \E x \in db.users : x.id = u
    /\ db' = [db EXCEPT !.users = {x \in db.users : x.id # u},
                        !.cart = IF ForeignKeysEnabled
                                   THEN {c \in db.cart : c.user_id # u}
                                   ELSE db.cart]
    /\ tx' = db'
    /\ UNCHANGED <<lock, proc>>

---------------------------------------------------------------------------
(* add_to_cart(user_id, software_id, quantity) *)

\* cart = SELECT id FROM cart WHERE user_id = ?
add_to_cart_select_cart(p, u, s, q) ==
    /\ proc[p].pc = "idle"
    /\ LET r == Start("add_to_cart", u, s, q, 0)
           cart == CartOfUser(db, u)
       IN  IF cart = {}
             THEN Set(p, Fin(r, "NotFound"))
             ELSE Set(p, [r EXCEPT !.pc = "ac_price",
                                   !.cart_id = (CHOOSE c \in cart : TRUE).id])
    /\ ReadOnly

\* software = SELECT price FROM software WHERE id = ?
add_to_cart_select_price(p) ==
    /\ proc[p].pc = "ac_price"
    /\ LET r == proc[p]
           software == {s \in db.software : s.id = r.sw}
       IN  IF software = {}
             THEN Set(p, Fin(r, "NotFound"))
             ELSE Set(p, [r EXCEPT !.pc = "ac_exist",
                                   !.price = (CHOOSE s \in software : TRUE).price])
    /\ ReadOnly

\* existing_item = SELECT id, quantity FROM cart_items
\*                 WHERE cart_id = ? AND software_id = ?
add_to_cart_select_existing(p) ==
    /\ proc[p].pc = "ac_exist"
    /\ LET r == proc[p]
           existing == {l \in db.cart_items :
                           l.cart_id = r.cart_id /\ l.software_id = r.sw}
       IN  IF existing = {}
             THEN Set(p, [r EXCEPT !.pc = "ac_write", !.ex_id = 0, !.ex_qty = 0])
             ELSE LET e == CHOOSE l \in existing : TRUE
                  IN  Set(p, [r EXCEPT !.pc = "ac_write",
                                       !.ex_id = e.id, !.ex_qty = e.quantity])
    /\ ReadOnly

\* fault: adding to an existing line also stores the price just read
AddToCartLineRepriced(d, r) ==
    IF r.ex_id # 0
      THEN [d EXCEPT !.cart_items =
               {IF l.id = r.ex_id THEN [l EXCEPT !.quantity = r.ex_qty + r.qty,
                                                 !.price_at_add = r.price]
                                  ELSE l : l \in d.cart_items}]
      ELSE [d EXCEPT !.cart_items = d.cart_items \cup
               {[id |-> d.seq_cart_items + 1, cart_id |-> r.cart_id,
                 software_id |-> r.sw, quantity |-> r.qty,
                 price_at_add |-> r.price]},
                     !.seq_cart_items = d.seq_cart_items + 1]

\* the statement of add_to_cart that changes cart_items, applied to d:
\* UPDATE cart_items SET quantity = existing.quantity + quantity WHERE id = ?
\* or INSERT INTO cart_items (cart_id, software_id, quantity, price_at_add)
AddToCartLine(d, r) ==
    IF r.ex_id # 0
      THEN [d EXCEPT !.cart_items =
               {IF l.id = r.ex_id THEN [l EXCEPT !.quantity = r.ex_qty + r.qty]
                                  ELSE l : l \in d.cart_items}]
      ELSE [d EXCEPT !.cart_items = d.cart_items \cup
               {[id |-> d.seq_cart_items + 1, cart_id |-> r.cart_id,
                 software_id |-> r.sw, quantity |-> r.qty,
                 price_at_add |-> r.price]},
                     !.seq_cart_items = d.seq_cart_items + 1]

\* CHECK(quantity > 0) and UNIQUE(cart_id, software_id) of cart_items
CartItemsConstraints(d) ==
    /\ \A l \in d.cart_items : l.quantity > 0
    /\ \A l1, l2 \in d.cart_items :
          (l1.cart_id = l2.cart_id /\ l1.software_id = l2.software_id) => l1 = l2

\* the update or insert, then the total recompute; commit follows
add_to_cart_write(p) ==
    /\ proc[p].pc = "ac_write"
    /\ lock = 0
    /\ LET r == proc[p]
           d == AddToCartLine(db, r)
       IN  /\ d.seq_cart_items <= MaxLineId
           /\ \A l \in d.cart_items : l.quantity <= MaxQty
           /\ IF CartItemsConstraints(d)
                THEN /\ Begin(p, RecomputeTotal(d, r.cart_id))
                     /\ Set(p, AtCommit(r))
                ELSE Raise(p, "IntegrityError")

---------------------------------------------------------------------------
(* remove_from_cart(item_id) and update_cart_item_quantity(item_id, quantity) *)

\* fault: remove_from_cart without the "Cart item not found" exit
RemoveSelectUnchecked(r) ==
    LET item == {l \in db.cart_items : l.id = r.item}
    IN  [r EXCEPT !.pc = "rm_write",
                  !.cart_id = IF item = {} THEN 0
                              ELSE (CHOOSE l \in item : TRUE).cart_id]

\* item = SELECT cart_id FROM cart_items WHERE id = ?, raising ValueError
\* when the line is missing
RemoveSelect(r) ==
    LET item == {l \in db.cart_items : l.id = r.item}
    IN  IF item = {}
          THEN Fin(r, "NotFound")
          ELSE [r EXCEPT !.pc = "rm_write",
                         !.cart_id = (CHOOSE l \in item : TRUE).cart_id]

remove_from_cart_select(p, i) ==
    /\ proc[p].pc = "idle"
    /\ Set(p, RemoveSelect(Start("remove_from_cart", 0, 0, 0, i)))
    /\ ReadOnly

\* DELETE FROM cart_items WHERE id = ?, then the total recompute
remove_from_cart_write(p) ==
    /\ proc[p].pc = "rm_write"
    /\ lock = 0
    /\ LET r == proc[p]
           d == [db EXCEPT !.cart_items = {l \in db.cart_items : l.id # r.item}]
       IN  /\ Begin(p, RecomputeTotal(d, r.cart_id))
           /\ Set(p, AtCommit(r))

\* quantity <= 0 hands over to remove_from_cart (on a connection of its own);
\* otherwise item = SELECT cart_id FROM cart_items WHERE id = ? and item['cart_id'],
\* which raises TypeError when the line is missing
update_cart_item_quantity_select(p, i, q) ==
    /\ proc[p].pc = "idle"
    /\ LET r == Start("update_cart_item_quantity", 0, 0, q, i)
           item == {l \in db.cart_items : l.id = i}
       IN  IF q <= 0
             THEN Set(p, RemoveSelect(r))
             ELSE IF item = {}
                    THEN Set(p, Fin(r, "TypeError"))
                    ELSE Set(p, [r EXCEPT !.pc = "uq_write",
                                   !.cart_id = (CHOOSE l \in item : TRUE).cart_id])
    /\ ReadOnly

\* update_cart_item_route, requested by logged-in user u (login_required is
\* the only use the route makes of the session): quantity <= 0 is answered
\* with the 'wrong quantity' message and a redirect to the cart; otherwise
\* update_cart_item_quantity is called, and an exception of it is shown as
\* an error message
update_cart_item_route(p, u, i, q) ==
    /\ proc[p].pc = "idle"
    /\ LET r == Start("update_cart_item_route", u, 0, q, i)
           item == {l \in db.cart_items : l.id = i}
       IN  IF q <= 0
             THEN Set(p, [Fin(r, "InvalidInput") EXCEPT !.item = i])
             ELSE IF item = {}
                    THEN Set(p, Fin(r, "TypeError"))
                    ELSE Set(p, [r EXCEPT !.pc = "uq_write",
                                   !.cart_id = (CHOOSE l \in item : TRUE).cart_id])
    /\ ReadOnly

\* remove_from_cart_route, requested by logged-in user u: remove_from_cart is
\* called with the line id of the URL, and an exception of it is shown as an
\* error message
remove_from_cart_route(p, u, i) ==
    /\ proc[p].pc = "idle"
    /\ Set(p, RemoveSelect(Start("remove_from_cart_route", u, 0, 0, i)))
    /\ ReadOnly

\* UPDATE cart_items SET quantity = ? WHERE id = ?, then the total recompute
update_cart_item_quantity_write(p) ==
    /\ proc[p].pc = "uq_write"
    /\ lock = 0
    /\ LET r == proc[p]
           d == [db EXCEPT !.cart_items =
                    {IF l.id = r.item THEN [l EXCEPT !.quantity = r.qty] ELSE l
                        : l \in db.cart_items}]
       IN  /\ Begin(p, RecomputeTotal(d, r.cart_id))
           /\ Set(p, AtCommit(r))

---------------------------------------------------------------------------
(* clear_cart(user_id) *)

\* DELETE FROM cart_items WHERE cart_id = ?; UPDATE cart SET total_price = 0
DrainCart(d, cid) ==
    [d EXCEPT !.cart_items = {l \in d.cart_items : l.cart_id # cid},
              !.cart = {IF c.id = cid THEN [c EXCEPT !.total_price = 0] ELSE c
                           : c \in d.cart}]

clear_cart_select(p, u) ==
    /\ proc[p].pc = "idle"
    /\ LET r == Start("clear_cart", u, 0, 0, 0)
           cart == CartOfUser(db, u)
       IN  IF cart = {}
             THEN Set(p, Fin(r, "NotFound"))
             ELSE Set(p, [r EXCEPT !.pc = "cc_write",
                                   !.cart_id = (CHOOSE c \in cart : TRUE).id])
    /\ ReadOnly

clear_cart_write(p) ==
    /\ proc[p].pc = "cc_write"
    /\ lock = 0
    /\ Begin(p, DrainCart(db, proc[p].cart_id))
    /\ Set(p, AtCommit(proc[p]))

---------------------------------------------------------------------------
(* create_purchase(user_id, payment_method) and the checkout route *)

\* fault: create_purchase without the "Cart is empty" exit
CreatePurchaseSelectAnyTotal(r) ==
    LET cart == CartOfUser(db, r.user)
        c == CHOOSE x \in cart : TRUE
    IN  IF cart = {} THEN Fin(r, "NotFound")
        ELSE [r EXCEPT !.pc = "cp_insert", !.cart_id = c.id, !.total = c.total_price]

\* cart = SELECT id, total_price FROM cart WHERE user_id = ?, with the
\* "Cart not found" and "Cart is empty" (total_price == 0) exits
CreatePurchaseSelect(r) ==
    LET cart == CartOfUser(db, r.user)
        c == CHOOSE x \in cart : TRUE
    IN  IF cart = {} THEN Fin(r, "NotFound")
        ELSE IF c.total_price = 0 THEN Fin(r, "EmptyCart")
        ELSE [r EXCEPT !.pc = "cp_insert", !.cart_id = c.id, !.total = c.total_price]

create_purchase_select_cart(p, u) ==
    /\ proc[p].pc = "idle"
    /\ Set(p, CreatePurchaseSelect(Start("create_purchase", u, 0, 0, 0)))
    /\ ReadOnly

\* checkout(): cart_items = get_cart_items(user_id); an empty list redirects
\* to the catalog before create_purchase is reached
checkout_get_cart_items(p, u) ==
    /\ proc[p].pc = "idle"
    /\ LET r == Start("checkout", u, 0, 0, 0)
       IN  IF get_cart_items(db, u) = {}
             THEN Set(p, Fin(r, "CartEmptyRedirect"))
             ELSE Set(p, [r EXCEPT !.pc = "co_post"])
    /\ ReadOnly

\* checkout(), POST: purchase_id = create_purchase(user_id, payment_method)
checkout_create_purchase(p) ==
    /\ proc[p].pc = "co_post"
    /\ Set(p, CreatePurchaseSelect(proc[p]))
    /\ ReadOnly

\* INSERT INTO purchase_history (user_id, total_price, payment_method), status
\* by default 'completed'; then cart_items = SELECT ... FROM cart_items ci
\* JOIN software s ... WHERE ci.cart_id = ?
create_purchase_insert(p) ==
    /\ proc[p].pc = "cp_insert"
    /\ lock = 0
    /\ db.seq_purchase_history < MaxPurchases
    /\ LET r == proc[p]
           id == db.seq_purchase_history + 1
           d == [db EXCEPT !.purchase_history = db.purchase_history \cup
                    {[id |-> id, user_id |-> r.user, total_price |-> r.total,
                      status |-> "completed"]},
                           !.seq_purchase_history = id]
       IN  /\ Begin(p, d)
           /\ Set(p, [r EXCEPT !.pc = "cp_items", !.pid = id,
                               !.todo = JoinedLines(d, r.cart_id)])

\* fault: a purchase counted as one download per line
CopyItemOneDownload(d, pid, item) ==
    [d EXCEPT !.purchase_items = d.purchase_items \cup
                 {[purchase_id |-> pid, software_id |-> item.software_id,
                   software_name |-> s.name, developer |-> s.developer,
                   quantity |-> item.quantity,
                   price_at_purchase |-> item.price_at_add]
                     : s \in {x \in d.software : x.id = item.software_id}},
              !.software =
                 {IF s.id = item.software_id
                     THEN [s EXCEPT !.downloads = s.downloads + 1]
                     ELSE s : s \in d.software}]

\* one round of the loop: INSERT INTO purchase_items ...;
\* UPDATE software SET downloads = downloads + quantity WHERE id = ?
CopyItem(d, pid, item) ==
    [d EXCEPT !.purchase_items = d.purchase_items \cup
                 {[purchase_id |-> pid, software_id |-> item.software_id,
                   software_name |-> s.name, developer |-> s.developer,
                   quantity |-> item.quantity,
                   price_at_purchase |-> item.price_at_add]
                     : s \in {x \in d.software : x.id = item.software_id}},
              !.software =
                 {IF s.id = item.software_id
                     THEN [s EXCEPT !.downloads = s.downloads + item.quantity]
                     ELSE s : s \in d.software}]

create_purchase_copy_item(p) ==
    /\ proc[p].pc = "cp_items"
    /\ lock = p
    /\ proc[p].todo # {}
    /\ \E item \in proc[p].todo :
          /\ tx' = CopyItem(tx, proc[p].pid, item)
          /\ Set(p, [proc[p] EXCEPT !.todo = proc[p].todo \ {item}])
    /\ UNCHANGED <<db, lock>>

\* after the loop: DELETE FROM cart_items WHERE cart_id = ?;
\* UPDATE cart SET total_price = 0 WHERE id = ?
create_purchase_clear_cart(p) ==
    /\ proc[p].pc = "cp_items"
    /\ lock = p
    /\ proc[p].todo = {}
    /\ tx' = DrainCart(tx, proc[p].cart_id)
    /\ Set(p, AtCommit(proc[p]))
    /\ UNCHANGED <<db, lock>>

---------------------------------------------------------------------------
(* Review eligibility: user_has_purchased_software as a request of its own *)

\* can_review = user_has_purchased_software(user_id, software_id)
user_has_purchased_software_call(p, u, s) ==
    /\ proc[p].pc = "idle"
    /\ LET r == Start("user_has_purchased_software", u, s, 0, 0)
       IN  Set(p, [Fin(r, IF user_has_purchased_software(db, u, s)
                            THEN "True" ELSE "False")
                     EXCEPT !.sw = s])
    /\ ReadOnly

---------------------------------------------------------------------------
(* Cart page: the cart route *)

\* cart(): cart = get_user_cart(user_id), on a connection of its own
cart_get_user_cart(p, u) ==
    /\ proc[p].pc = "idle"
    /\ Set(p, [Start("cart", u, 0, 0, 0)
                  EXCEPT !.pc = "cv_items", !.view.cart = CartOfUser(db, u)])
    /\ ReadOnly

\* cart(): cart_items = get_cart_items(user_id), on another connection, then
\* render_template('cart.html', cart=cart, cart_items=cart_items)
cart_get_cart_items(p) ==
    /\ proc[p].pc = "cv_items"
    /\ LET r == proc[p]
       IN  Set(p, [Fin(r, "Rendered")
                     EXCEPT !.view.cart = r.view.cart,
                            !.view.cart_items = get_cart_items(db, r.user)])
    /\ ReadOnly

---------------------------------------------------------------------------
(* Purchase pages: purchase_success and purchase_detail *)

\* SELECT * FROM purchase_history WHERE id = ?
get_purchase_by_id(d, pid) == {ph \in d.purchase_history : ph.id = pid}

\* SELECT * FROM purchase_items WHERE purchase_id = ?
get_purchase_items(d, pid) == {l \in d.purchase_items : l.purchase_id = pid}

\* fault: a page that shows any purchase that exists
PurchaseOfAnyone(purchase, u) == purchase # {}

\* the negation of "not purchase or purchase['user_id'] != session['user_id']"
PurchaseOfUser(purchase, u) ==
    purchase # {} /\ \A ph \in purchase : ph.user_id = u

\* purchase_success: purchase = get_purchase_by_id(purchase_id)
purchase_success_get_purchase(p, u, pid) ==
    /\ proc[p].pc = "idle"
    /\ Set(p, [Start("purchase_success", u, 0, 0, 0)
                  EXCEPT !.pc = "ps_items", !.pid = pid,
                         !.view.purchase = get_purchase_by_id(db, pid)])
    /\ ReadOnly

\* purchase_success: purchase_items = get_purchase_items(purchase_id), then
\* the owner check: redirect to the index or render
purchase_success_render(p) ==
    /\ proc[p].pc = "ps_items"
    /\ LET r == proc[p]
       IN  IF PurchaseOfUser(r.view.purchase, r.user)
             THEN Set(p, [Fin(r, "Rendered")
                            EXCEPT !.view.purchase = r.view.purchase,
                                   !.view.purchase_items =
                                       get_purchase_items(db, r.pid)])
             ELSE Set(p, Fin(r, "NotFoundRedirect"))
    /\ ReadOnly

\* purchase_detail: purchase = get_purchase_by_id(purchase_id) and the owner
\* check: redirect to the purchase list or go on
purchase_detail_get_purchase(p, u, pid) ==
    /\ proc[p].pc = "idle"
    /\ LET r == [Start("purchase_detail", u, 0, 0, 0) EXCEPT !.pid = pid]
           purchase == get_purchase_by_id(db, pid)
       IN  IF PurchaseOfUser(purchase, u)
             THEN Set(p, [r EXCEPT !.pc = "pd_items", !.view.purchase = purchase])
             ELSE Set(p, Fin(r, "NotFoundRedirect"))
    /\ ReadOnly

\* purchase_detail: purchase_items = get_purchase_items(purchase_id), render
purchase_detail_render(p) ==
    /\ proc[p].pc = "pd_items"
    /\ LET r == proc[p]
       IN  Set(p, [Fin(r, "Rendered")
                     EXCEPT !.view.purchase = r.view.purchase,
                            !.view.purchase_items = get_purchase_items(db, r.pid)])
    /\ ReadOnly

---------------------------------------------------------------------------
(* Catalog: update_software, delete_software (one statement and a commit) *)

\* fault: an edit of the item that is carried into the purchase lines of it
update_software_rewrites_history(s, has_name, name, has_price, price, has_developer, developer) ==
    /\ lock = 0
    /\ db' = [db EXCEPT
                 !.software =
                    {IF x.id = s
                        THEN [x EXCEPT
                                 !.name = IF has_name THEN name ELSE @,
                                 !.price = IF has_price THEN price ELSE @,
                                 !.developer = IF has_developer THEN developer ELSE @]
                        ELSE x : x \in db.software},
                 !.purchase_items =
                    {IF l.software_id = s
                        THEN [l EXCEPT
                                 !.software_name = IF has_name THEN name ELSE @,
                                 !.price_at_purchase = IF has_price THEN price ELSE @]
                        ELSE l : l \in db.purchase_items}]
    /\ tx' = db'
    /\ UNCHANGED <<lock, proc>>

\* update_software(software_id, name, price, developer): each of name, price
\* and developer is given or None; UPDATE software SET ... WHERE id = ? and
\* commit when at least one is given
update_software(s, has_name, name, has_price, price, has_developer, developer) ==
    /\ lock = 0
    /\ db' = [db EXCEPT !.software =
                 {IF x.id = s
                     THEN [x EXCEPT
                              !.name = IF has_name THEN name ELSE @,
                              !.price = IF has_price THEN price ELSE @,
                              !.developer = IF has_developer THEN developer ELSE @]
                     ELSE x : x \in db.software}]
    /\ tx' = db'
    /\ UNCHANGED <<lock, proc>>

\* increment_downloads(software_id):
\* UPDATE software SET downloads = downloads + 1 WHERE id = ? and commit
increment_downloads(s) ==
    /\ lock = 0
    /\ \A x \in db.software : x.id = s => x.downloads < MaxDownloads
    /\ db' = [db EXCEPT !.software =
                 {IF x.id = s THEN [x EXCEPT !.downloads = x.downloads + 1] ELSE x
                     : x \in db.software}]
    /\ tx' = db'
    /\ UNCHANGED <<lock, proc>>

\* category c is referenced by a software row
\* (FOREIGN KEY (category_id) REFERENCES categories(id) ON DELETE RESTRICT)
CategoryReferenced(d, c) == \E x \in d.software : x.category_id = c

\* DELETE FROM categories WHERE id = ?; the RESTRICT clause raises
\* IntegrityError only on a connection that enforces foreign keys
delete_category(c) ==
    /\ lock = 0
    /\ \E x \in db.categories : x.id = c
    /\ ~(ForeignKeysEnabled /\ CategoryReferenced(db, c))
    /\ db' = [db EXCEPT !.categories = {x \in db.categories : x.id # c}]
    /\ tx' = db'
    /\ UNCHANGED <<lock, proc>>

\* software s is referenced by a cart line or a purchase line
\* (FOREIGN KEY (software_id) REFERENCES software(id) ON DELETE RESTRICT)
SoftwareReferenced(d, s) ==
    \/ \E l \in d.cart_items : l.software_id = s
    \/ \E l \in d.purchase_items : l.software_id = s

\* DELETE FROM software WHERE id = ?; the RESTRICT clauses raise
\* IntegrityError only on a connection that enforces foreign keys
delete_software(s) ==
    /\ lock = 0
    /\ \E x \in db.software : x.id = s
    /\ ~(ForeignKeysEnabled /\ SoftwareReferenced(db, s))
    /\ db' = [db EXCEPT !.software = {x \in db.software : x.id # s}]
    /\ tx' = db'
    /\ UNCHANGED <<lock, proc>>

---------------------------------------------------------------------------
(* Reviews: add_or_update_review, add_review, update_review, delete_review *)

\* CHECK(rating >= 1 AND rating <= 5) and UNIQUE(user_id, software_id) of reviews
ReviewsConstraints(d) ==
    /\ \A r \in d.reviews : r.rating >= MinRating /\ r.rating <= MaxRating
    /\ \A r1, r2 \in d.reviews :
          (r1.user_id = r2.user_id /\ r1.software_id = r2.software_id) => r1 = r2

\* time passes between two transactions: CURRENT_TIMESTAMP moves on
clock_tick ==
    /\ lock = 0
    /\ db.clock < MaxTime
    /\ db' = [db EXCEPT !.clock = db.clock + 1]
    /\ tx' = db'
    /\ UNCHANGED <<lock, proc>>

\* INSERT INTO reviews (user_id, software_id, rating, comment), created_at
\* by default CURRENT_TIMESTAMP
InsertReview(d, u, s, rating, comment) ==
    [d EXCEPT !.reviews = d.reviews \cup
                 {[id |-> d.seq_reviews + 1, user_id |-> u, software_id |-> s,
                   rating |-> rating, comment |-> comment,
                   created_at |-> d.clock]},
              !.seq_reviews = d.seq_reviews + 1]

\* add_software_review (route): purchase check, rating and text validation,
\* then add_or_update_review
add_software_review(p, u, s, rating, text) ==
    /\ proc[p].pc = "idle"
    /\ LET r == [Start("add_software_review", u, s, 0, 0)
                    EXCEPT !.rating = rating, !.text = text]
       IN  IF ~user_has_purchased_software(db, u, s)
             THEN Set(p, Fin(r, "Unauthorized"))
             ELSE IF rating < MinRating \/ rating > MaxRating \/ text = ""
                    THEN Set(p, Fin(r, "InvalidInput"))
                    ELSE Set(p, [r EXCEPT !.pc = "ar_exist"])
    /\ ReadOnly

\* existing = SELECT id FROM reviews WHERE user_id = ? AND software_id = ?
add_or_update_review_select(p) ==
    /\ proc[p].pc = "ar_exist"
    /\ LET r == proc[p]
           existing == {x \in db.reviews :
                           x.user_id = r.user /\ x.software_id = r.sw}
       IN  Set(p, [r EXCEPT !.pc = "ar_write",
                            !.ex_id = IF existing = {} THEN 0
                                      ELSE (CHOOSE x \in existing : TRUE).id])
    /\ ReadOnly

\* fault: an update of an existing review that stores the rating only
AddOrUpdateRowRatingOnly(d, r) ==
    IF r.ex_id # 0
      THEN [d EXCEPT !.reviews =
               {IF x.id = r.ex_id THEN [x EXCEPT !.rating = r.rating] ELSE x
                  : x \in d.reviews}]
      ELSE InsertReview(d, r.user, r.sw, r.rating, r.text)

\* UPDATE reviews SET rating = ?, comment = ? WHERE id = existing
\* or INSERT INTO reviews ...
AddOrUpdateRow(d, r) ==
    IF r.ex_id # 0
      THEN [d EXCEPT !.reviews =
               {IF x.id = r.ex_id
                   THEN [x EXCEPT !.rating = r.rating, !.comment = r.text]
                   ELSE x : x \in d.reviews}]
      ELSE InsertReview(d, r.user, r.sw, r.rating, r.text)

\* fault: the average is taken before the review write instead of after it
add_or_update_review_write_avg_first(p) ==
    /\ proc[p].pc = "ar_write"
    /\ lock = 0
    /\ LET r == proc[p]
           d == AddOrUpdateRow(db, r)
       IN  /\ d.seq_reviews <= MaxReviewId
           /\ IF ReviewsConstraints(d)
                THEN /\ Begin(p, SetRatingAvg(d, r.sw, OrZero(AvgRating(db, r.sw))))
                     /\ Set(p, AtCommit(r))
                ELSE Raise(p, "IntegrityError")

\* the review write, avg_rating = AVG(rating) or 0.0, UPDATE software
add_or_update_review_write(p) ==
    /\ proc[p].pc = "ar_write"
    /\ lock = 0
    /\ LET r == proc[p]
           d == AddOrUpdateRow(db, r)
       IN  /\ d.seq_reviews <= MaxReviewId
           /\ IF ReviewsConstraints(d)
                THEN /\ Begin(p, SetRatingAvg(d, r.sw, OrZero(AvgRating(d, r.sw))))
                     /\ Set(p, AtCommit(r))
                ELSE Raise(p, "IntegrityError")

\* add_review_route: rating validation, get_software_by_id, then add_review
add_review_route(p, u, s, rating, comment) ==
    /\ proc[p].pc = "idle"
    /\ LET r == [Start("add_review_route", u, s, 0, 0)
                    EXCEPT !.rating = rating, !.text = comment]
       IN  IF rating < MinRating \/ rating > MaxRating
             THEN Set(p, Fin(r, "InvalidInput"))
             ELSE IF ~\E x \in db.software : x.id = s
                    THEN Set(p, Fin(r, "NotFound"))
                    ELSE Set(p, [r EXCEPT !.pc = "rv_write"])
    /\ ReadOnly

\* add_review: INSERT INTO reviews, avg_rating = AVG(rating), UPDATE software
add_review_write(p) ==
    /\ proc[p].pc = "rv_write"
    /\ lock = 0
    /\ LET r == proc[p]
           d == InsertReview(db, r.user, r.sw, r.rating, r.text)
       IN  /\ d.seq_reviews <= MaxReviewId
           /\ IF ReviewsConstraints(d)
                THEN /\ Begin(p, SetRatingAvg(d, r.sw, AvgRating(d, r.sw)))
                     /\ Set(p, AtCommit(r))
                ELSE Raise(p, "IntegrityError")

\* update_review(review_id, rating, comment): each of rating and comment is
\* given or None; UPDATE reviews SET ... WHERE id = ?, then
\* review = SELECT software_id FROM reviews WHERE id = ? and
\* review['software_id'] (TypeError when the review is missing),
\* avg_rating = AVG(rating), UPDATE software
update_review(p, i, has_rating, rating, has_comment, comment) ==
    /\ proc[p].pc = "idle"
    /\ lock = 0
    /\ LET r == [Start("update_review", 0, 0, 0, i)
                    EXCEPT !.rating = IF has_rating THEN rating ELSE 0,
                           !.text = IF has_comment THEN comment ELSE ""]
           d == [db EXCEPT !.reviews =
                    {IF x.id = i
                        THEN [x EXCEPT
                                 !.rating = IF has_rating THEN rating ELSE @,
                                 !.comment = IF has_comment THEN comment ELSE @]
                        ELSE x : x \in db.reviews}]
           review == {x \in d.reviews : x.id = i}
           software_id == (CHOOSE x \in review : TRUE).software_id
       IN  IF ~has_rating /\ ~has_comment
             THEN Set(p, Fin(r, "ok")) /\ ReadOnly
             ELSE IF ~ReviewsConstraints(d)
                    THEN Set(p, Fin(r, "IntegrityError")) /\ ReadOnly
                    ELSE IF review = {}
                           THEN Set(p, Fin(r, "TypeError")) /\ ReadOnly
                           ELSE /\ Begin(p, SetRatingAvg(d, software_id,
                                                         AvgRating(d, software_id)))
                                /\ Set(p, AtCommit([r EXCEPT !.sw = software_id]))

\* delete_review(review_id): review = SELECT software_id FROM reviews
\* WHERE id = ? and review['software_id'] (TypeError when missing)
delete_review_select(p, i) ==
    /\ proc[p].pc = "idle"
    /\ LET r == Start("delete_review", 0, 0, 0, i)
           review == {x \in db.reviews : x.id = i}
       IN  IF review = {}
             THEN Set(p, Fin(r, "TypeError"))
             ELSE Set(p, [r EXCEPT !.pc = "dr_write",
                                   !.sw = (CHOOSE x \in review : TRUE).software_id])
    /\ ReadOnly

\* DELETE FROM reviews WHERE id = ?, avg_rating = AVG(rating) or 0.0,
\* UPDATE software
delete_review_write(p) ==
    /\ proc[p].pc = "dr_write"
    /\ lock = 0
    /\ LET r == proc[p]
           d == [db EXCEPT !.reviews = {x \in db.reviews : x.id # r.item}]
       IN  /\ Begin(p, SetRatingAvg(d, r.sw, OrZero(AvgRating(d, r.sw))))
           /\ Set(p, AtCommit(r))

---------------------------------------------------------------------------
(* Sessions and role gates.  A browser session is a process that stays at    *)
(* "session" between its requests: user and user_role are what login() put   *)
(* into the session cookie, which every later request of the browser carries. *)

\* SELECT * FROM users WHERE id = ? (get_user_by_id) and WHERE email = ?
get_user_by_id(d, u) == {x \in d.users : x.id = u}

get_user_by_email(d, e) == {x \in d.users : x.email = e}

\* login(): user and user['password'] == password and user['is_active'], then
\* session['user_id'] = user['id'], session['user_role'] = user['role']
login(p, e) ==
    /\ proc[p].pc = "idle"
    /\ LET r == Start("login", 0, 0, 0, 0)
           user == get_user_by_email(db, e)
       IN  IF user # {} /\ (CHOOSE x \in user : TRUE).is_active
             THEN Set(p, [r EXCEPT !.pc = "session", !.op = "none",
                                   !.user = (CHOOSE x \in user : TRUE).id,
                                   !.user_role = (CHOOSE x \in user : TRUE).role])
             ELSE Set(p, Fin(r, "InvalidCredentials"))
    /\ ReadOnly

\* logout(): session.clear()
logout(p) ==
    /\ proc[p].pc = "session"
    /\ Set(p, Idle)
    /\ ReadOnly

\* the response of a request made in a session: the session stays open
Respond(r, o, result) == [r EXCEPT !.pc = "responded", !.op = o, !.res = result]

\* the browser has the response and is free for its next request
session_return(p) ==
    /\ proc[p].pc = "responded"
    /\ Set(p, [proc[p] EXCEPT !.pc = "session", !.op = "none", !.res = "none"])
    /\ ReadOnly

\* user_role = session.get('user_role')
SessionRole(r) == r.user_role

\* pages behind "if user_role != 'admin'": admin_users, manage_categories
AdminPages == {"admin_users", "manage_categories"}

\* pages behind "if user_role not in ['admin', 'moder']": manage_software,
\* admin_tickets, admin_reviews
StaffPages == {"manage_software", "admin_tickets", "admin_reviews"}

session_admin_page(p, o) ==
    /\ proc[p].pc = "session"
    /\ Set(p, Respond(proc[p], o, IF SessionRole(proc[p]) # "admin"
                                    THEN "Refused" ELSE "Rendered"))
    /\ ReadOnly

session_staff_page(p, o) ==
    /\ proc[p].pc = "session"
    /\ Set(p, Respond(proc[p], o, IF SessionRole(proc[p]) \notin {"admin", "moder"}
                                    THEN "Refused" ELSE "Rendered"))
    /\ ReadOnly

\* admin_panel(): user = get_user_by_id(session['user_id']);
\* "if not user or user['role'] != 'admin'" refuses
admin_panel(p) ==
    /\ proc[p].pc = "session"
    /\ LET user == get_user_by_id(db, proc[p].user)
       IN  Set(p, Respond(proc[p], "admin_panel",
                          IF user = {} \/ (CHOOSE x \in user : TRUE).role # "admin"
                            THEN "Refused" ELSE "Rendered"))
    /\ ReadOnly

\* admin_change_user_role(user_id): the role gate, the check of the new role
\* (every role of Roles passes it), then set_user_role:
\* UPDATE users SET role = ? WHERE id = ? and commit
admin_change_user_role(p, u, role) ==
    /\ proc[p].pc = "session"
    /\ lock = 0
    /\ IF SessionRole(proc[p]) # "admin"
         THEN Set(p, Respond(proc[p], "admin_change_user_role", "Refused"))
              /\ ReadOnly
         ELSE /\ db' = [db EXCEPT !.users =
                           {IF x.id = u THEN [x EXCEPT !.role = role] ELSE x
                              : x \in db.users}]
              /\ tx' = db'
              /\ Set(p, Respond(proc[p], "admin_change_user_role", "ok"))
              /\ UNCHANGED lock

\* admin_toggle_user_active(user_id): the role gate, u = get_user_by_id(user_id),
\* then set_user_active(user_id, not u['is_active']):
\* UPDATE users SET is_active = ? WHERE id = ? and commit
admin_toggle_user_active(p, u) ==
    /\ proc[p].pc = "session"
    /\ lock = 0
    /\ IF SessionRole(proc[p]) # "admin"
         THEN Set(p, Respond(proc[p], "admin_toggle_user_active", "Refused"))
              /\ ReadOnly
         ELSE IF get_user_by_id(db, u) = {}
                THEN Set(p, Respond(proc[p], "admin_toggle_user_active", "NotFound"))
                     /\ ReadOnly
                ELSE /\ db' = [db EXCEPT !.users =
                                  {IF x.id = u
                                      THEN [x EXCEPT !.is_active = ~x.is_active]
                                      ELSE x : x \in db.users}]
                     /\ tx' = db'
                     /\ Set(p, Respond(proc[p], "admin_toggle_user_active", "ok"))
                     /\ UNCHANGED lock

---------------------------------------------------------------------------
(* Specifications *)

\* the worker of a deployment that handles one request at a time
SerialProcs == {CHOOSE p \in Procs : TRUE}

\* Requests handled one at a time (no two overlap), with every cart, checkout
\* and catalog operation and a store that may fail inside any transaction.
Next ==
    \/ \E p \in SerialProcs, u \in UserIds, s \in SoftwareIds, q \in AddQtys :
          add_to_cart_select_cart(p, u, s, q)
    \/ \E p \in SerialProcs : add_to_cart_select_price(p)
    \/ \E p \in SerialProcs : add_to_cart_select_existing(p)
    \/ \E p \in SerialProcs : add_to_cart_write(p)
    \/ \E p \in SerialProcs, i \in LineIds : remove_from_cart_select(p, i)
    \/ \E p \in SerialProcs : remove_from_cart_write(p)
    \/ \E p \in SerialProcs, i \in LineIds, q \in QtyInputs :
          update_cart_item_quantity_select(p, i, q)
    \/ \E p \in SerialProcs, u \in UserIds, i \in LineIds, q \in QtyInputs :
          update_cart_item_route(p, u, i, q)
    \/ \E p \in SerialProcs : update_cart_item_quantity_write(p)
    \/ \E p \in SerialProcs, u \in UserIds : clear_cart_select(p, u)
    \/ \E p \in SerialProcs : clear_cart_write(p)
    \/ \E p \in SerialProcs, u \in UserIds : create_purchase_select_cart(p, u)
    \/ \E p \in SerialProcs, u \in UserIds : checkout_get_cart_items(p, u)
    \/ \E p \in SerialProcs : checkout_create_purchase(p)
    \/ \E p \in SerialProcs : create_purchase_insert(p)
    \/ \E p \in SerialProcs : create_purchase_copy_item(p)
    \/ \E p \in SerialProcs : create_purchase_clear_cart(p)
    \/ \E p \in SerialProcs : commit(p)
    \/ \E p \in SerialProcs : store_failure(p)
    \/ \E p \in SerialProcs : Return(p)
    \/ \E s \in SoftwareIds, price \in Prices :
          /\ \A p \in Procs : proc[p].pc = "idle"
          /\ update_software(s, FALSE, "", TRUE, price, FALSE, "")
    \/ \E s \in SoftwareIds :
          (\A p \in Procs : proc[p].pc = "idle") /\ delete_software(s)

Spec == Init /\ [][Next]_vars

\* Concurrent request-handling workers: add_to_cart and create_purchase
\* requests overlap freely, each on a connection of its own.
NextConc ==
    \/ \E p \in Procs, u \in UserIds, s \in SoftwareIds, q \in AddQtys :
          add_to_cart_select_cart(p, u, s, q)
    \/ \E p \in Procs : add_to_cart_select_price(p)
    \/ \E p \in Procs : add_to_cart_select_existing(p)
    \/ \E p \in Procs : add_to_cart_write(p)
    \/ \E p \in Procs, u \in UserIds : create_purchase_select_cart(p, u)
    \/ \E p \in Procs : create_purchase_insert(p)
    \/ \E p \in Procs : create_purchase_copy_item(p)
    \/ \E p \in Procs : create_purchase_clear_cart(p)
    \/ \E p \in Procs : commit(p)
    \/ \E p \in Procs : store_failure(p)
    \/ \E p \in Procs : database_locked(p)
    \/ \E p \in Procs : Return(p)

SpecConc == Init /\ [][NextConc]_vars

\* in the review scenario one user shops, for one of the items
Shoppers == {CHOOSE u \in UserIds : TRUE}
Bought == {CHOOSE s \in SoftwareIds : TRUE}

\* Requests handled one at a time: a shopper buys with add_to_cart (at its
\* default quantity) and create_purchase; every user uses every review
\* operation on every item.
NextReview ==
    \/ \E p \in SerialProcs, u \in Shoppers, s \in Bought :
          add_to_cart_select_cart(p, u, s, 1)
    \/ \E p \in SerialProcs : add_to_cart_select_price(p)
    \/ \E p \in SerialProcs : add_to_cart_select_existing(p)
    \/ \E p \in SerialProcs : add_to_cart_write(p)
    \/ \E p \in SerialProcs, u \in Shoppers : create_purchase_select_cart(p, u)
    \/ \E p \in SerialProcs : create_purchase_insert(p)
    \/ \E p \in SerialProcs : create_purchase_copy_item(p)
    \/ \E p \in SerialProcs : create_purchase_clear_cart(p)
    \/ \E p \in SerialProcs, u \in UserIds, s \in SoftwareIds,
          rating \in RatingInputs, text \in Texts :
          add_software_review(p, u, s, rating, text)
    \/ \E p \in SerialProcs : add_or_update_review_select(p)
    \/ \E p \in SerialProcs : add_or_update_review_write(p)
    \/ \E p \in SerialProcs, u \in UserIds, s \in SoftwareIds,
          rating \in RatingInputs, text \in Texts :
          add_review_route(p, u, s, rating, text)
    \/ \E p \in SerialProcs : add_review_write(p)
    \/ \E p \in SerialProcs, i \in ReviewIds, hr \in BOOLEAN, rating \in RatingInputs,
          hc \in BOOLEAN, text \in Texts :
          update_review(p, i, hr, rating, hc, text)
    \/ \E p \in SerialProcs, i \in ReviewIds : delete_review_select(p, i)
    \/ \E p \in SerialProcs : delete_review_write(p)
    \/ \E p \in SerialProcs : commit(p)
    \/ \E p \in SerialProcs : store_failure(p)
    \/ \E p \in SerialProcs : Return(p)

SpecReview == Init /\ [][NextReview]_vars

\* the database after every user has bought the item of Bought, one after the
\* other: add_to_cart(u, s, 1) then create_purchase(u)
PurchasedDb ==
    [InitDb EXCEPT
        !.seq_cart_items = NUsers,
        !.software = {IF x.id \in Bought THEN [x EXCEPT !.downloads = NUsers] ELSE x
                         : x \in InitDb.software},
        !.purchase_history = {[id |-> u, user_id |-> u, total_price |-> 1,
                               status |-> "completed"] : u \in UserIds},
        !.purchase_items = {[purchase_id |-> u, software_id |-> s,
                             software_name |-> "name1", developer |-> "dev1",
                             quantity |-> 1, price_at_purchase |-> 1]
                               : u \in UserIds, s \in Bought},
        !.seq_purchase_history = NUsers]

InitPurchased ==
    /\ db = PurchasedDb
    /\ tx = PurchasedDb
    /\ lock = 0
    /\ proc = [p \in Procs |-> Idle]

\* Concurrent request-handling workers after those purchases: review
\* submissions, edits and deletions for the bought item overlap freely, each on
\* a connection of its own.
NextReviewConc ==
    \/ \E p \in Procs, u \in UserIds, s \in Bought,
          rating \in RatingInputs, text \in Texts :
          add_software_review(p, u, s, rating, text)
    \/ \E p \in Procs : add_or_update_review_select(p)
    \/ \E p \in Procs : add_or_update_review_write(p)
    \/ \E p \in Procs, u \in UserIds, s \in Bought,
          rating \in RatingInputs, text \in Texts :
          add_review_route(p, u, s, rating, text)
    \/ \E p \in Procs : add_review_write(p)
    \/ \E p \in Procs, i \in ReviewIds, hr \in BOOLEAN, rating \in RatingInputs,
          hc \in BOOLEAN, text \in Texts :
          update_review(p, i, hr, rating, hc, text)
    \/ \E p \in Procs, i \in ReviewIds : delete_review_select(p, i)
    \/ \E p \in Procs : delete_review_write(p)
    \/ \E p \in Procs : commit(p)
    \/ \E p \in Procs : store_failure(p)
    \/ \E p \in Procs : database_locked(p)
    \/ \E p \in Procs : Return(p)

SpecReviewConc == InitPurchased /\ [][NextReviewConc]_vars

\* Requests handled one at a time: a shopper fills the cart and checks out
\* while the catalog is edited (renamed, repriced, given another developer)
\* between requests.
NextHistory ==
    \/ \E p \in SerialProcs, u \in Shoppers, s \in SoftwareIds, q \in AddQtys :
          add_to_cart_select_cart(p, u, s, q)
    \/ \E p \in SerialProcs : add_to_cart_select_price(p)
    \/ \E p \in SerialProcs : add_to_cart_select_existing(p)
    \/ \E p \in SerialProcs : add_to_cart_write(p)
    \/ \E p \in SerialProcs, i \in LineIds : remove_from_cart_select(p, i)
    \/ \E p \in SerialProcs : remove_from_cart_write(p)
    \/ \E p \in SerialProcs, u \in Shoppers : create_purchase_select_cart(p, u)
    \/ \E p \in SerialProcs : create_purchase_insert(p)
    \/ \E p \in SerialProcs : create_purchase_copy_item(p)
    \/ \E p \in SerialProcs : create_purchase_clear_cart(p)
    \/ \E p \in SerialProcs : commit(p)
    \/ \E p \in SerialProcs : store_failure(p)
    \/ \E p \in SerialProcs : Return(p)
    \/ \E s \in SoftwareIds, hn \in BOOLEAN, name \in Names, hp \in BOOLEAN,
          price \in Prices, hd \in BOOLEAN, developer \in Developers :
          /\ \A p \in Procs : proc[p].pc = "idle"
          /\ update_software(s, hn, name, hp, price, hd, developer)

SpecHistory == Init /\ [][NextHistory]_vars

\* Requests handled one at a time: a shopper fills the cart and checks out
\* while an administrator deletes categories and items between requests.
NextCatalog ==
    \/ \E p \in SerialProcs, u \in Shoppers, s \in SoftwareIds, q \in AddQtys :
          add_to_cart_select_cart(p, u, s, q)
    \/ \E p \in SerialProcs : add_to_cart_select_price(p)
    \/ \E p \in SerialProcs : add_to_cart_select_existing(p)
    \/ \E p \in SerialProcs : add_to_cart_write(p)
    \/ \E p \in SerialProcs, u \in Shoppers : create_purchase_select_cart(p, u)
    \/ \E p \in SerialProcs : create_purchase_insert(p)
    \/ \E p \in SerialProcs : create_purchase_copy_item(p)
    \/ \E p \in SerialProcs : create_purchase_clear_cart(p)
    \/ \E p \in SerialProcs : commit(p)
    \/ \E p \in SerialProcs : store_failure(p)
    \/ \E p \in SerialProcs : Return(p)
    \/ \E c \in CategoryIds :
          (\A p \in Procs : proc[p].pc = "idle") /\ delete_category(c)
    \/ \E s \in SoftwareIds :
          (\A p \in Procs : proc[p].pc = "idle") /\ delete_software(s)

SpecCatalog == Init /\ [][NextCatalog]_vars

\* Requests handled one at a time: users shop and check out, the catalog is
\* repriced and items are deleted between requests, and every logged-in user
\* asks for the pages of every purchase id.
NextView ==
    \/ \E p \in SerialProcs, u \in UserIds, s \in SoftwareIds :
          add_to_cart_select_cart(p, u, s, 1)
    \/ \E p \in SerialProcs : add_to_cart_select_price(p)
    \/ \E p \in SerialProcs : add_to_cart_select_existing(p)
    \/ \E p \in SerialProcs : add_to_cart_write(p)
    \/ \E p \in SerialProcs, u \in UserIds : create_purchase_select_cart(p, u)
    \/ \E p \in SerialProcs : create_purchase_insert(p)
    \/ \E p \in SerialProcs : create_purchase_copy_item(p)
    \/ \E p \in SerialProcs : create_purchase_clear_cart(p)
    \/ \E p \in SerialProcs : commit(p)
    \/ \E p \in SerialProcs : store_failure(p)
    \/ \E p \in SerialProcs : Return(p)
    \/ \E p \in SerialProcs, u \in UserIds, pid \in PurchaseIds :
          purchase_success_get_purchase(p, u, pid)
    \/ \E p \in SerialProcs : purchase_success_render(p)
    \/ \E p \in SerialProcs, u \in UserIds, pid \in PurchaseIds :
          purchase_detail_get_purchase(p, u, pid)
    \/ \E p \in SerialProcs : purchase_detail_render(p)
    \/ \E s \in SoftwareIds, price \in Prices :
          /\ \A p \in Procs : proc[p].pc = "idle"
          /\ update_software(s, FALSE, "", TRUE, price, FALSE, "")
    \/ \E s \in SoftwareIds :
          (\A p \in Procs : proc[p].pc = "idle") /\ delete_software(s)

SpecView == Init /\ [][NextView]_vars

\* Concurrent request-handling workers: a shopper's add_to_cart requests and
\* requests for the shopper's cart page overlap freely.
NextCartRead ==
    \/ \E p \in Procs, u \in Shoppers, s \in SoftwareIds, q \in AddQtys :
          add_to_cart_select_cart(p, u, s, q)
    \/ \E p \in Procs : add_to_cart_select_price(p)
    \/ \E p \in Procs : add_to_cart_select_existing(p)
    \/ \E p \in Procs : add_to_cart_write(p)
    \/ \E p \in Procs, u \in Shoppers : cart_get_user_cart(p, u)
    \/ \E p \in Procs : cart_get_cart_items(p)
    \/ \E p \in Procs : commit(p)
    \/ \E p \in Procs : store_failure(p)
    \/ \E p \in Procs : database_locked(p)
    \/ \E p \in Procs : Return(p)

SpecCartRead == Init /\ [][NextCartRead]_vars

\* the values the schema admits for purchase_history.status
Statuses == {"completed", "refunded"}

\* purchase histories the schema admits: each purchase id is unused or the
\* purchase of some user with some status, and each purchase may have a line
\* for each item
PurchaseHistories ==
    {h \in SUBSET {[id |-> i, user_id |-> u, total_price |-> 1, status |-> st]
                      : i \in PurchaseIds, u \in UserIds, st \in Statuses} :
        \A x, y \in h : x.id = y.id => x = y}

PurchaseLines ==
    SUBSET {[purchase_id |-> i, software_id |-> s, software_name |-> "name1",
             developer |-> "dev1", quantity |-> 1, price_at_purchase |-> 1]
               : i \in PurchaseIds, s \in SoftwareIds}

InitEligibility ==
    /\ \E h \in PurchaseHistories, ls \in PurchaseLines :
          /\ \A l \in ls : \E ph \in h : ph.id = l.purchase_id
          /\ db = [InitDb EXCEPT !.purchase_history = h,
                                 !.purchase_items = ls,
                                 !.seq_purchase_history = MaxPurchases]
    /\ tx = db
    /\ lock = 0
    /\ proc = [p \in Procs |-> Idle]

\* user_has_purchased_software asked for every user and item, on every
\* purchase history the schema admits
NextEligibility ==
    \/ \E p \in SerialProcs, u \in UserIds, s \in SoftwareIds :
          user_has_purchased_software_call(p, u, s)
    \/ \E p \in SerialProcs : Return(p)

SpecEligibility == InitEligibility /\ [][NextEligibility]_vars

\* Requests handled one at a time: add_to_cart is called for every user id
\* and software id, with and without a row behind it, and remove_from_cart
\* for every line id, existing or not.
NextCartNotFound ==
    \/ \E p \in SerialProcs, u \in UserIds \cup {NoCartUser},
          s \in SoftwareIds \cup {NoSoftware}, q \in AddQtys :
          add_to_cart_select_cart(p, u, s, q)
    \/ \E p \in SerialProcs : add_to_cart_select_price(p)
    \/ \E p \in SerialProcs : add_to_cart_select_existing(p)
    \/ \E p \in SerialProcs : add_to_cart_write(p)
    \/ \E p \in SerialProcs, i \in LineIds : remove_from_cart_select(p, i)
    \/ \E p \in SerialProcs : remove_from_cart_write(p)
    \/ \E p \in SerialProcs : commit(p)
    \/ \E p \in SerialProcs : store_failure(p)
    \/ \E p \in SerialProcs : Return(p)

SpecCartNotFound == Init /\ [][NextCartNotFound]_vars

\* Requests handled one at a time: a shopper fills the cart and checks out
\* while downloads are counted one by one and items are deleted between
\* requests.
NextDownloads ==
    \/ \E p \in SerialProcs, u \in Shoppers, s \in SoftwareIds, q \in AddQtys :
          add_to_cart_select_cart(p, u, s, q)
    \/ \E p \in SerialProcs : add_to_cart_select_price(p)
    \/ \E p \in SerialProcs : add_to_cart_select_existing(p)
    \/ \E p \in SerialProcs : add_to_cart_write(p)
    \/ \E p \in SerialProcs, u \in Shoppers : create_purchase_select_cart(p, u)
    \/ \E p \in SerialProcs : create_purchase_insert(p)
    \/ \E p \in SerialProcs : create_purchase_copy_item(p)
    \/ \E p \in SerialProcs : create_purchase_clear_cart(p)
    \/ \E p \in SerialProcs : commit(p)
    \/ \E p \in SerialProcs : store_failure(p)
    \/ \E p \in SerialProcs : Return(p)
    \/ \E s \in SoftwareIds :
          (\A p \in Procs : proc[p].pc = "idle") /\ increment_downloads(s)
    \/ \E s \in SoftwareIds :
          (\A p \in Procs : proc[p].pc = "idle") /\ delete_software(s)

SpecDownloads == Init /\ [][NextDownloads]_vars

\* Requests handled one at a time: visitors register, users are deleted
\* between requests, and every user id, with or without a user behind it, is
\* used for add_to_cart, clear_cart and create_purchase.
NextUsers ==
    \/ \E p \in SerialProcs, e \in Emails : add_user_insert_user(p, e)
    \/ \E p \in SerialProcs : add_user_insert_cart(p)
    \/ \E u \in AllUserIds :
          (\A p \in Procs : proc[p].pc = "idle") /\ delete_user(u)
    \/ \E p \in SerialProcs, u \in AllUserIds, s \in Bought :
          add_to_cart_select_cart(p, u, s, 1)
    \/ \E p \in SerialProcs : add_to_cart_select_price(p)
    \/ \E p \in SerialProcs : add_to_cart_select_existing(p)
    \/ \E p \in SerialProcs : add_to_cart_write(p)
    \/ \E p \in SerialProcs, i \in LineIds : remove_from_cart_select(p, i)
    \/ \E p \in SerialProcs : remove_from_cart_write(p)
    \/ \E p \in SerialProcs, u \in AllUserIds : clear_cart_select(p, u)
    \/ \E p \in SerialProcs : clear_cart_write(p)
    \/ \E p \in SerialProcs, u \in AllUserIds : create_purchase_select_cart(p, u)
    \/ \E p \in SerialProcs : create_purchase_insert(p)
    \/ \E p \in SerialProcs : create_purchase_copy_item(p)
    \/ \E p \in SerialProcs : create_purchase_clear_cart(p)
    \/ \E p \in SerialProcs : commit(p)
    \/ \E p \in SerialProcs : store_failure(p)
    \/ \E p \in SerialProcs : Return(p)

SpecUsers == Init /\ [][NextUsers]_vars

\* Requests handled one at a time, after those purchases: every user submits
\* reviews for the bought item through add_software_review, again and again
\* while time passes.
NextReviewTime ==
    \/ \E p \in SerialProcs, u \in UserIds, s \in Bought,
          rating \in RatingInputs, text \in Texts :
          add_software_review(p, u, s, rating, text)
    \/ \E p \in SerialProcs : add_or_update_review_select(p)
    \/ \E p \in SerialProcs : add_or_update_review_write(p)
    \/ \E p \in SerialProcs : commit(p)
    \/ \E p \in SerialProcs : store_failure(p)
    \/ \E p \in SerialProcs : Return(p)
    \/ clock_tick

SpecReviewTime == InitPurchased /\ [][NextReviewTime]_vars

\* the state after init_db() on a new database file
InitEmpty ==
    /\ db = EmptyDb
    /\ tx = EmptyDb
    /\ lock = 0
    /\ proc = [p \in Procs |-> Idle]

\* Requests handled one at a time from a new database: the application
\* starts (and restarts) with seed_initial_data, and between the starts
\* visitors register and an administrator deletes categories and items.
NextSeed ==
    \/ \E p \in SerialProcs : seed_initial_data(p)
    \/ \E p \in SerialProcs, e \in Emails : add_user_insert_user(p, e)
    \/ \E p \in SerialProcs : add_user_insert_cart(p)
    \/ \E p \in SerialProcs : commit(p)
    \/ \E p \in SerialProcs : store_failure(p)
    \/ \E p \in SerialProcs : Return(p)
    \/ \E c \in 1..MaxCategoryId :
          (\A p \in Procs : proc[p].pc = "idle") /\ delete_category(c)
    \/ \E s \in 1..MaxSoftwareId :
          (\A p \in Procs : proc[p].pc = "idle") /\ delete_software(s)

SpecSeed == InitEmpty /\ [][NextSeed]_vars

\* Requests handled one at a time: every logged-in user fills the own cart
\* and posts to the update and remove routes with every line id.
NextCartOwner ==
    \/ \E p \in SerialProcs, u \in UserIds, s \in SoftwareIds :
          add_to_cart_select_cart(p, u, s, 1)
    \/ \E p \in SerialProcs : add_to_cart_select_price(p)
    \/ \E p \in SerialProcs : add_to_cart_select_existing(p)
    \/ \E p \in SerialProcs : add_to_cart_write(p)
    \/ \E p \in SerialProcs, u \in UserIds, i \in LineIds, q \in QtyInputs :
          update_cart_item_route(p, u, i, q)
    \/ \E p \in SerialProcs : update_cart_item_quantity_write(p)
    \/ \E p \in SerialProcs, u \in UserIds, i \in LineIds :
          remove_from_cart_route(p, u, i)
    \/ \E p \in SerialProcs : remove_from_cart_write(p)
    \/ \E p \in SerialProcs : commit(p)
    \/ \E p \in SerialProcs : store_failure(p)
    \/ \E p \in SerialProcs : Return(p)

SpecCartOwner == Init /\ [][NextCartOwner]_vars

\* Browser sessions open side by side: users log in and out, and in their
\* sessions request the administrator's and the moderators' pages, change
\* roles and block and unblock users.
NextRoles ==
    \/ \E p \in Procs, e \in UserIds : login(p, e)
    \/ \E p \in Procs : logout(p)
    \/ \E p \in Procs : Return(p)
    \/ \E p \in Procs : session_return(p)
    \/ \E p \in Procs, o \in AdminPages : session_admin_page(p, o)
    \/ \E p \in Procs, o \in StaffPages : session_staff_page(p, o)
    \/ \E p \in Procs : admin_panel(p)
    \/ \E p \in Procs, u \in UserIds, role \in Roles :
          admin_change_user_role(p, u, role)
    \/ \E p \in Procs, u \in UserIds : admin_toggle_user_active(p, u)

SpecRoles == Init /\ [][NextRoles]_vars

---------------------------------------------------------------------------
(* Properties *)

CheckoutOps == {"create_purchase", "checkout"}

\* the step in which process p's conn.commit() succeeds
Commits(p) ==
    proc[p].pc = "commit" /\ proc'[p].pc = "done" /\ proc'[p].res = "ok"

\* the sum of quantity * price_at_add over the lines of cart cid, line by line
\* in the order of their ids
RECURSIVE TotalUpTo(_, _)
TotalUpTo(cid, n) ==
    IF n = 0 THEN 0
    ELSE LET line == {l \in db.cart_items : l.id = n /\ l.cart_id = cid}
         IN  (IF line = {} THEN 0
              ELSE LET l == CHOOSE x \in line : TRUE
                   IN  l.quantity * l.price_at_add)
             + TotalUpTo(cid, n - 1)

\* C1: for every cart, after every operation of any sequence of add_to_cart,
\* update_cart_item_quantity, remove_from_cart, clear_cart and create_purchase,
\* the stored total_price equals the sum over the cart's cart_items rows of
\* quantity * price_at_add.
C1_CartTotalInvariant ==
    \A c \in db.cart : c.total_price = TotalUpTo(c.id, db.seq_cart_items)

\* a cart holding two lines, one of them of quantity 2, with their total stored
C1_Witness ==
    \E c \in db.cart :
        /\ Cardinality(LinesOfCart(db, c.id)) = 2
        /\ \E l \in LinesOfCart(db, c.id) : l.quantity = 2 /\ l.price_at_add = 1
        /\ c.total_price = 3

\* C2: a successful create_purchase(user) on a cart with n >= 1 lines creates
\* exactly one purchase, with the cart's total at that moment and status
\* completed, creates exactly n purchase lines, each copying the quantity and
\* price_at_add of one cart line, and leaves the cart with 0 lines and
\* total_price 0.
C2_CheckoutPostcondition ==
    [][\A p \in Procs :
          (/\ Commits(p)
           /\ proc[p].op \in CheckoutOps
           /\ LinesOfCart(db, proc[p].cart_id) # {})
          => LET cid == proc[p].cart_id
                 lines == LinesOfCart(db, cid)
                 cart == CHOOSE c \in db.cart : c.id = cid
             IN  /\ db'.purchase_history \ db.purchase_history =
                       {[id |-> proc[p].pid, user_id |-> proc[p].user,
                         total_price |-> cart.total_price,
                         status |-> "completed"]}
                 /\ db.purchase_history \subseteq db'.purchase_history
                 /\ db'.purchase_items \ db.purchase_items =
                       {[purchase_id |-> proc[p].pid,
                         software_id |-> lx[1].software_id,
                         software_name |-> lx[2].name,
                         developer |-> lx[2].developer,
                         quantity |-> lx[1].quantity,
                         price_at_purchase |-> lx[1].price_at_add]
                           : lx \in {y \in lines \X db.software :
                                        y[2].id = y[1].software_id}}
                 /\ Cardinality(db'.purchase_items \ db.purchase_items)
                       = Cardinality(lines)
                 /\ db.purchase_items \subseteq db'.purchase_items
                 /\ LinesOfCart(db', cid) = {}
                 /\ \A c \in db'.cart : c.id = cid => c.total_price = 0]_vars

\* C3: checkout is all-or-nothing: a create_purchase that fails after its
\* purchase row was inserted (while copying a line, incrementing downloads,
\* draining the cart or committing) leaves no purchase row, no purchase line
\* and no downloads increment, and the cart's lines and total as they were:
\* nothing a checkout writes reaches the database unless it ends in success.
C3_CheckoutAllOrNothing ==
    [][\A p \in Procs :
          (proc[p].op \in CheckoutOps /\ lock = p /\ ~Commits(p)) => db' = db]_vars

\* a create_purchase has failed inside its transaction: the cart still holds
\* its lines and total and there is no purchase
C3_Witness ==
    \E p \in Procs :
        /\ proc[p].pc = "done"
        /\ proc[p].op = "create_purchase"
        /\ proc[p].res = "StoreFailure"
        /\ db.purchase_history = {}
        /\ db.purchase_items = {}
        /\ \E c \in CartOfUser(db, proc[p].user) :
              c.total_price > 0 /\ LinesOfCart(db, c.id) # {}
        /\ \A s \in db.software : s.downloads = 0

\* C4: in every reachable state every purchase row has at least one purchase
\* line.
C4_NoPurchaseWithoutLines ==
    \A ph \in db.purchase_history :
        \E pi \in db.purchase_items : pi.purchase_id = ph.id

\* C5: create_purchase on a cart with 0 lines fails with the empty-cart error
\* and creates no purchase row and no purchase line; the checkout route likewise
\* creates no purchase for a cart with no lines (it redirects before calling
\* create_purchase).
C5_EmptyCartCheckoutFails ==
    [][\A p \in Procs, u \in UserIds :
          (/\ proc[p].pc \in {"idle", "co_post"}
           /\ proc'[p] # proc[p]
           /\ proc'[p].op \in CheckoutOps
           /\ proc'[p].user = u
           /\ \A c \in CartOfUser(db, u) : LinesOfCart(db, c.id) = {})
          => /\ proc'[p].pc = "done"
             /\ proc'[p].res =
                   IF proc[p].pc = "idle" /\ proc'[p].op = "checkout"
                     THEN "CartEmptyRedirect" ELSE "EmptyCart"
             /\ db' = db]_vars

\* create_purchase has refused a cart that had held lines and was emptied
C5_Witness ==
    \E p \in Procs :
        /\ proc[p].pc = "done"
        /\ proc[p].op = "create_purchase"
        /\ proc[p].res = "EmptyCart"
        /\ db.seq_cart_items > 0
        /\ db.cart_items = {}
        /\ db.purchase_history = {}

\* C6: of two create_purchase calls running concurrently for the same user on a
\* non-empty cart at most one succeeds; the other observes the drained cart and
\* fails with the empty-cart error: no create_purchase commits a purchase for a
\* cart that is drained in the committed database.
C6_SecondCheckoutFails ==
    [][\A p \in Procs :
          (Commits(p) /\ proc[p].op \in CheckoutOps)
          => LinesOfCart(db, proc[p].cart_id) # {}]_vars

\* C7: concurrent add_to_cart calls for the same user and item lose no
\* increment: each add_to_cart that succeeds on an existing line leaves the line
\* with the quantity it had in the database plus the quantity added, so two
\* calls adding q1 and q2 to a line of quantity q end with q + q1 + q2.
C7_NoLostIncrement ==
    [][\A p \in Procs :
          (Commits(p) /\ proc[p].op = "add_to_cart")
          => \A l \in db.cart_items :
                (l.cart_id = proc[p].cart_id /\ l.software_id = proc[p].sw)
                => \E l2 \in db'.cart_items :
                      l2.id = l.id /\ l2.quantity = l.quantity + proc[p].qty]_vars

\* C8: in every reachable state a review row for (user, item) exists only if
\* that user has at least one purchase with status completed containing that
\* item: every route that creates or updates a review refuses a user without
\* such a purchase.
C8_ReviewsOnlyByBuyers ==
    \A r \in db.reviews :
        \E ph \in db.purchase_history :
            /\ ph.user_id = r.user_id
            /\ ph.status = "completed"
            /\ \E pi \in db.purchase_items :
                  pi.purchase_id = ph.id /\ pi.software_id = r.software_id

\* the sum of the ratings of the review rows of item s, row by row in the order
\* of their ids
RECURSIVE RatingsUpTo(_, _)
RatingsUpTo(s, n) ==
    IF n = 0 THEN 0
    ELSE LET row == {r \in db.reviews : r.id = n /\ r.software_id = s}
         IN  (IF row = {} THEN 0 ELSE (CHOOSE r \in row : TRUE).rating)
             + RatingsUpTo(s, n - 1)

\* C9: in every reachable state and for every item, software.rating_avg equals
\* the arithmetic mean of the ratings of the item's current review rows, and
\* equals 0 when the item has no reviews; this holds after add_or_update_review,
\* add_review, update_review, delete_review.
C9_RatingAvgIsMean ==
    \A s \in db.software :
        LET count == Cardinality({r \in db.reviews : r.software_id = s.id})
        IN  /\ s.rating_avg.den > 0
            /\ s.rating_avg.num * count
                  = RatingsUpTo(s.id, db.seq_reviews) * s.rating_avg.den
            /\ count = 0 => s.rating_avg.num = 0

\* an item with two reviews, rated 4 and 5, whose rating_avg is 9/2
C9_Witness ==
    \E s \in db.software :
        /\ {r.rating : r \in {x \in db.reviews : x.software_id = s.id}} = {4, 5}
        /\ s.rating_avg = [num |-> 9, den |-> 2]

AvgReflectsRows(d, s) ==
    LET rows == {r \in d.reviews : r.software_id = s.id}
        ids == {r.id : r \in rows}
        total[S \in SUBSET ids] ==
            IF S = {} THEN 0
            ELSE LET i == CHOOSE x \in S : TRUE
                 IN  (CHOOSE r \in rows : r.id = i).rating + total[S \ {i}]
    IN  /\ s.rating_avg.den > 0
        /\ s.rating_avg.num * Cardinality(rows) = total[ids] * s.rating_avg.den
        /\ rows = {} => s.rating_avg.num = 0

\* C11: the review write and the rating_avg recompute commit as one atomic
\* unit: under concurrent review submissions by different users for the same
\* item (and concurrent edits and deletions), no committed state has a review
\* row whose rating is not reflected in the item's rating_avg, and every step
\* that changes the committed reviews changes the averages with them.
C11_ReviewAndAvgAtomic ==
    /\ [](\A s \in db.software : AvgReflectsRows(db, s))
    /\ [][db'.reviews # db.reviews
            => /\ \E p \in Procs : Commits(p)
               /\ \A s \in db'.software : AvgReflectsRows(db', s)]_vars

\* two users' submissions for one item overlap: one has committed its row and
\* the average with it while the other, having looked for its own row, waits to
\* write
C11_Witness ==
    \E p, q \in Procs :
        /\ proc[p].pc = "done" /\ proc[p].res = "ok"
        /\ proc[p].op = "add_software_review"
        /\ proc[q].pc = "ar_write" /\ proc[q].ex_id = 0
        /\ proc[q].user # proc[p].user
        /\ \E r \in db.reviews, s \in db.software :
              /\ db.reviews = {r}
              /\ r.user_id = proc[p].user
              /\ r.software_id = proc[q].sw
              /\ s.id = r.software_id
              /\ r.rating = 4
              /\ s.rating_avg = [num |-> 4, den |-> 1]

\* C12: price lock-in: once a cart line is inserted its price_at_add never
\* changes (whatever update_software does to the item's price), and add_to_cart
\* of an item the user's cart already holds only increases the existing line's
\* quantity, adds no line and keeps the price captured at first add.
C12_PriceLockIn ==
    [][/\ \A l \in db.cart_items, l2 \in db'.cart_items :
             l2.id = l.id =>
                /\ l2.price_at_add = l.price_at_add
                /\ l2.cart_id = l.cart_id
                /\ l2.software_id = l.software_id
       /\ \A p \in Procs, l \in db.cart_items :
             (/\ Commits(p)
              /\ proc[p].op = "add_to_cart"
              /\ l.cart_id = proc[p].cart_id
              /\ l.software_id = proc[p].sw)
             => db'.cart_items =
                   (db.cart_items \ {l}) \cup
                   {[l EXCEPT !.quantity = l.quantity + proc[p].qty]}]_vars

\* the item was added at price 1, then repriced to 0, and a second add_to_cart
\* of it is about to commit: the line goes from quantity 1 to 2 at price 1
C12_Witness ==
    \E p \in Procs, l \in db.cart_items, l2 \in tx.cart_items :
        /\ proc[p].pc = "commit"
        /\ proc[p].op = "add_to_cart"
        /\ l.id = l2.id
        /\ l.software_id = proc[p].sw
        /\ l.quantity = 1 /\ l2.quantity = 2
        /\ l.price_at_add = 1 /\ l2.price_at_add = 1
        /\ \E x \in db.software : x.id = l.software_id /\ x.price = 0

\* C13: once created, a purchase row and its purchase lines never change: after
\* any later update_software (rename, reprice), cart operation or checkout,
\* each existing purchase line still holds the item name, developer, quantity
\* and price captured at checkout, the purchase's total_price is unchanged, and
\* no line is added to an existing purchase.
C13_PurchaseImmutable ==
    [][/\ db.purchase_history \subseteq db'.purchase_history
       /\ db.purchase_items \subseteq db'.purchase_items
       /\ \A ph \in db'.purchase_history \ db.purchase_history :
             \A old \in db.purchase_history : old.id # ph.id
       /\ \A pi \in db'.purchase_items \ db.purchase_items :
             \A old \in db.purchase_history : old.id # pi.purchase_id]_vars

\* an item bought under its seeded name, developer and price has since been
\* renamed, given another developer and repriced; the purchase line and the
\* purchase total still hold what was captured
C13_Witness ==
    \E ph \in db.purchase_history, pi \in db.purchase_items, x \in db.software :
        /\ pi.purchase_id = ph.id
        /\ x.id = pi.software_id
        /\ ph.total_price = 1
        /\ pi.software_name = "name1" /\ x.name = "name2"
        /\ pi.developer = "dev1" /\ x.developer = "dev2"
        /\ pi.price_at_purchase = 1 /\ x.price = 0
        /\ pi.quantity = 1

\* C14: delete_category on a category that is still referenced by at least one
\* software item fails with a conflict error and leaves the category and its
\* items unchanged: no step removes a category that a software row references.
C14_ReferencedCategoryKept ==
    [][\A c \in db.categories :
          (\E x \in db.software : x.category_id = c.id)
          => c \in db'.categories]_vars

\* C15: delete_software on an item that is referenced by at least one purchase
\* line or cart line fails with a conflict error and leaves the item, the
\* purchase lines and the cart lines unchanged; no purchase line or cart line
\* ever references a missing item.
C15_ReferencedSoftwareKept ==
    /\ \A l \in db.cart_items : \E x \in db.software : x.id = l.software_id
    /\ \A l \in db.purchase_items : \E x \in db.software : x.id = l.software_id

PurchasePages == {"purchase_success", "purchase_detail"}

\* C16: a purchase is shown only to its owner: for every purchase and every
\* logged-in requester other than its user, purchase_detail and
\* purchase_success end in the not-found redirect and render neither the
\* purchase nor its lines; for its user they render the purchase and its lines,
\* in any later state (no purchase ever disappears).
C16_PurchaseShownToOwnerOnly ==
    [][/\ db.purchase_history \subseteq db'.purchase_history
       /\ \A p \in Procs :
             (/\ proc'[p].op \in PurchasePages
              /\ proc'[p].pc = "done"
              /\ proc[p].pc # "done")
             => LET u == proc'[p].user
                    owned == {ph \in db.purchase_history :
                                 ph.id = proc'[p].pid /\ ph.user_id = u}
                IN  IF owned = {}
                      THEN /\ proc'[p].res = "NotFoundRedirect"
                           /\ proc'[p].view = NoView
                      ELSE /\ proc'[p].res = "Rendered"
                           /\ proc'[p].view.purchase = owned
                           /\ proc'[p].view.purchase_items =
                                 {l \in db.purchase_items :
                                     l.purchase_id = proc'[p].pid}]_vars

\* a user has asked purchase_detail for a purchase that exists, with a line,
\* and belongs to someone else, and was sent away
C16_Witness ==
    \E p \in Procs, ph \in db.purchase_history :
        /\ proc[p].pc = "done"
        /\ proc[p].op = "purchase_detail"
        /\ proc[p].pid = ph.id
        /\ proc[p].user # ph.user_id
        /\ \E l \in db.purchase_items : l.purchase_id = ph.id
        /\ proc[p].res = "NotFoundRedirect"

\* C17: a reader that runs concurrently with a cart mutation never observes the
\* cart's lines after the mutation together with the total_price from before
\* it, or the reverse: the lines and total the cart page renders always satisfy
\* total_price = sum of quantity * price_at_add.
C17_ReaderSeesConsistentCart ==
    \A p \in Procs :
        (proc[p].op = "cart" /\ proc[p].pc = "done")
        => \A c \in proc[p].view.cart :
              c.total_price = SumLines(proc[p].view.cart_items)

\* C18: in every reachable state a cart's total_price is zero exactly when the
\* cart has no lines, so create_purchase rejects a cart as empty if and only if
\* it has no lines.
C18_ZeroTotalIffNoLines ==
    \A c \in db.cart : (c.total_price = 0) <=> (LinesOfCart(db, c.id) = {})

\* C19: user_has_purchased_software(user, item) is true if and only if some
\* purchase of that user with status completed has a purchase line for that
\* item; a purchase with status refunded never makes it true.
C19_PurchasedIffCompletedLine ==
    \A p \in Procs :
        (proc[p].op = "user_has_purchased_software" /\ proc[p].pc = "done")
        => LET completed == {ph \in db.purchase_history :
                                ph.user_id = proc[p].user /\ ph.status = "completed"}
               bought == {l.software_id :
                             l \in {x \in db.purchase_items :
                                       \E ph \in completed : ph.id = x.purchase_id}}
           IN  proc[p].res = IF proc[p].sw \in bought THEN "True" ELSE "False"

\* the user's only purchase with a line for the item is refunded, and the
\* answer is False
C19_Witness ==
    \E p \in Procs, ph \in db.purchase_history, l \in db.purchase_items :
        /\ proc[p].op = "user_has_purchased_software" /\ proc[p].pc = "done"
        /\ ph.user_id = proc[p].user
        /\ ph.status = "refunded"
        /\ l.purchase_id = ph.id
        /\ l.software_id = proc[p].sw
        /\ proc[p].res = "False"

SetQuantityOps == {"update_cart_item_quantity", "update_cart_item_route"}

\* C20: setting an existing cart line's quantity to a value <= 0 removes that
\* line and recomputes the cart total without reporting an error; setting it to
\* a value > 0 stores that quantity and recomputes the total.  A request on an
\* existing line is never answered with an error, and its commit leaves the
\* lines and the total as described.
C20_SetQuantity ==
    [][\A p \in Procs, l \in db.cart_items :
          /\ (/\ proc[p].pc = "idle"
              /\ proc'[p].op \in SetQuantityOps
              /\ proc'[p].item = l.id)
             => proc'[p].pc # "done"
          /\ (/\ Commits(p)
              /\ proc[p].op \in SetQuantityOps
              /\ proc[p].item = l.id)
             => /\ db'.cart_items =
                      IF proc[p].qty <= 0
                        THEN db.cart_items \ {l}
                        ELSE (db.cart_items \ {l}) \cup
                             {[l EXCEPT !.quantity = proc[p].qty]}
                /\ \A c \in db'.cart :
                      c.id = l.cart_id
                      => c.total_price = SumLines(LinesOfCart(db', c.id))]_vars

\* C21: add_to_cart called for a user without a cart or for a missing item,
\* and remove_from_cart called for a missing line id, each end with the
\* not-found error (never reaching their write), and that call changes no
\* cart line and no cart total.
C21_NotFoundChangesNothing ==
    [][\A p \in Procs :
          /\ (proc[p].pc = "idle" /\ proc'[p].op = "add_to_cart"
                 /\ CartOfUser(db, proc'[p].user) = {})
               => (proc'[p].pc = "done" /\ proc'[p].res = "NotFound")
          /\ (proc[p].op = "add_to_cart" /\ proc[p].pc = "ac_price"
                 /\ ~\E s \in db.software : s.id = proc[p].sw)
               => (proc'[p].pc = "done" /\ proc'[p].res = "NotFound")
          /\ (proc[p].pc = "idle" /\ proc'[p].op = "remove_from_cart")
               => \/ proc'[p].pc = "done" /\ proc'[p].res = "NotFound"
                  \/ \E l \in db.cart_items : l.id = proc'[p].item
          /\ (proc[p].pc # "done" /\ proc'[p].pc = "done"
                 /\ proc'[p].op \in {"add_to_cart", "remove_from_cart"}
                 /\ proc'[p].res = "NotFound")
               => (db'.cart_items = db.cart_items /\ db'.cart = db.cart
                     /\ tx' = db')]_vars

\* a remove_from_cart for a missing line id has ended with the not-found
\* error while the carts hold lines
C21_Witness ==
    \E p \in Procs :
        /\ proc[p].op = "remove_from_cart"
        /\ proc[p].pc = "done"
        /\ proc[p].res = "NotFound"
        /\ db.cart_items # {}
        /\ \E c \in db.cart : c.total_price > 0

\* the core operations of the cart and of the checkout
CoreCartOps ==
    {"add_to_cart", "update_cart_item_quantity", "remove_from_cart", "clear_cart",
     "create_purchase"}

\* the error kinds an operation may report
ErrorKinds ==
    {"NotFound", "InvalidInput", "EmptyCart", "Unauthorized", "Conflict",
     "StoreFailure", "CheckoutFailed"}

\* C22: every call of a core operation that fails, a call naming a missing
\* line id included, leaves the whole database exactly as it was before the
\* call and reports one of the error kinds NotFound, InvalidInput, EmptyCart,
\* Unauthorized, Conflict, StoreFailure or CheckoutFailed.
C22_FailureKeepsStateAndKind ==
    [][\A p \in Procs :
          (/\ proc[p].pc # "done"
           /\ proc'[p].pc = "done"
           /\ proc'[p].op \in CoreCartOps
           /\ proc'[p].res # "ok")
          => (db' = db /\ tx' = db /\ proc'[p].res \in ErrorKinds)]_vars

\* the quantity that cart cid holds of item s (0 without a line)
QuantityInCart(d, cid, s) ==
    LET line == {l \in d.cart_items : l.cart_id = cid /\ l.software_id = s}
    IN  IF line = {} THEN 0 ELSE (CHOOSE l \in line : TRUE).quantity

\* C23: a create_purchase that succeeds increases the downloads of each item
\* in the cart by exactly the quantity of its line and leaves the downloads
\* of every other item unchanged; and no step of any operation decreases the
\* downloads of an item.
C23_DownloadsCountQuantities ==
    [][/\ \A p \in Procs :
            (Commits(p) /\ proc[p].op \in CheckoutOps)
            => /\ {x.id : x \in db'.software} = {x.id : x \in db.software}
               /\ \A x \in db.software : \A y \in db'.software :
                     y.id = x.id
                     => y.downloads
                          = x.downloads + QuantityInCart(db, proc[p].cart_id, x.id)
       /\ \A x \in db.software : \A y \in db'.software :
            y.id = x.id => y.downloads >= x.downloads]_vars

\* a purchase of the largest quantity of one item has succeeded: that item
\* has the downloads of the purchase and another item has none
C23_Witness ==
    \E p \in Procs :
        /\ proc[p].op = "create_purchase"
        /\ proc[p].pc = "done"
        /\ proc[p].res = "ok"
        /\ \E l \in db.purchase_items : \E x, y \in db.software :
              /\ l.purchase_id = proc[p].pid
              /\ l.quantity = MaxQty
              /\ x.id = l.software_id
              /\ x.downloads = MaxQty
              /\ y.id # x.id
              /\ y.downloads = 0

\* C24: in every reachable state every existing user has exactly one cart;
\* a call of add_user adds the user and the user's cart together when it
\* succeeds and adds neither when it fails; and no step of a cart operation
\* or of a checkout removes a cart row.
C24_OneCartPerUser ==
    /\ [](\A u \in db.users : Cardinality(CartOfUser(db, u.id)) = 1)
    /\ [][\A p \in Procs :
            /\ (Commits(p) /\ proc[p].op = "add_user")
                 => /\ db'.users \ db.users
                         = {x \in db'.users : x.id = proc[p].user}
                    /\ db'.cart \ db.cart
                         = {c \in db'.cart : c.user_id = proc[p].user}
                    /\ Cardinality(db'.users) = Cardinality(db.users) + 1
                    /\ Cardinality(db'.cart) = Cardinality(db.cart) + 1
            /\ (proc[p].pc # "done" /\ proc'[p].pc = "done"
                   /\ proc'[p].op = "add_user" /\ proc'[p].res # "ok")
                 => (db'.users = db.users /\ db'.cart = db.cart /\ tx' = db')
            /\ {c.id : c \in db.cart} \subseteq {c.id : c \in db'.cart}]_vars

\* a registration has succeeded: the user it created is stored together
\* with exactly one cart
C24_Witness ==
    \E p \in Procs :
        /\ proc[p].op = "add_user"
        /\ proc[p].pc = "done"
        /\ proc[p].res = "ok"
        /\ \E u \in db.users :
              u.id = proc[p].user /\ u.id > NUsers
                /\ Cardinality(CartOfUser(db, u.id)) = 1

\* the routes that take a review submission
ReviewRoutes == {"add_software_review", "add_review_route"}

\* C25: a review submission with a rating outside 1..5 or with an empty text
\* is rejected by either review route before anything is stored, and in
\* every reachable state every review row has a rating in 1..5 and a
\* non-empty text.
C25_ReviewInputValidated ==
    /\ [](\A x \in db.reviews :
            x.rating >= MinRating /\ x.rating <= MaxRating /\ x.comment # "")
    /\ [][\A p \in Procs :
            (proc[p].pc = "idle" /\ proc'[p].op \in ReviewRoutes
               /\ proc'[p].pc # "done")
            => /\ proc'[p].rating >= MinRating
               /\ proc'[p].rating <= MaxRating
               /\ proc'[p].text # ""]_vars

\* C26: when a user resubmits a review for an item the user has already
\* reviewed, the commit leaves the existing row (same id) with the rating
\* and the text of the resubmission and with the time of the resubmission
\* as its timestamp.
C26_ResubmissionOverwritesAll ==
    [][\A p \in Procs :
          (Commits(p) /\ proc[p].op = "add_software_review")
          => \A x \in db.reviews :
                (x.user_id = proc[p].user /\ x.software_id = proc[p].sw)
                => \E y \in db'.reviews :
                      /\ y.id = x.id
                      /\ y.rating = proc[p].rating
                      /\ y.comment = proc[p].text
                      /\ y.created_at = db.clock]_vars

\* the step in which process p runs seed_initial_data
Seeds(p) ==
    /\ proc[p].pc = "idle"
    /\ proc'[p].op = "seed_initial_data"
    /\ proc'[p].pc = "done"

RECURSIVE SumPurchaseLines(_)
SumPurchaseLines(S) ==
    IF S = {} THEN 0
    ELSE LET l == CHOOSE x \in S : TRUE
         IN  l.quantity * l.price_at_purchase + SumPurchaseLines(S \ {l})

\* C28: in every reachable state, with cart operations of the same user
\* overlapping create_purchase, the total_price of each purchase equals the
\* sum over the purchase's lines of quantity * price_at_purchase.
C28_PurchaseTotalIsSumOfLines ==
    \A ph \in db.purchase_history :
        ph.total_price = SumPurchaseLines(get_purchase_items(db, ph.id))

\* the routes that change or remove a cart line named by its id
LineRoutes == {"update_cart_item_route", "remove_from_cart_route"}

\* cart lines and carts that do not belong to user u
LinesOfOthers(d, u) ==
    {l \in d.cart_items : \E c \in d.cart : c.id = l.cart_id /\ c.user_id # u}

CartsOfOthers(d, u) == {c \in d.cart : c.user_id # u}

\* C29: a request of logged-in user u to update_cart_item_route or
\* remove_from_cart_route leaves every line of another user's cart, and the
\* total of every other user's cart, as it was.
C29_OnlyOwnerChangesLines ==
    [][\A p \in Procs :
          (Commits(p) /\ proc[p].op \in LineRoutes)
          => /\ LinesOfOthers(db', proc[p].user) = LinesOfOthers(db, proc[p].user)
             /\ CartsOfOthers(db', proc[p].user) = CartsOfOthers(db, proc[p].user)]_vars

\* the endpoints for the administrator alone, and those for the
\* administrator and the moderators
AdminEndpoints ==
    AdminPages \cup {"admin_panel", "admin_change_user_role",
                     "admin_toggle_user_active"}

StaffEndpoints == StaffPages

\* the role that the users table holds for user u ("" without such a user)
StoredRole(d, u) ==
    IF get_user_by_id(d, u) = {} THEN ""
    ELSE (CHOOSE x \in get_user_by_id(d, u) : TRUE).role

StoredActive(d, u) == \E x \in get_user_by_id(d, u) : x.is_active

\* C30: every request to an endpoint for the administrator, or for the
\* administrator and the moderators, made in a session of a user whose
\* stored role no longer admits the endpoint, or who has been deactivated, is
\* refused, whenever the session was opened.
C30_GatesFollowStoredRole ==
    [][\A p \in Procs :
          (proc[p].pc = "session" /\ proc'[p].pc = "responded")
          => /\ (proc'[p].op \in AdminEndpoints
                  /\ (StoredRole(db, proc[p].user) # "admin"
                       \/ ~StoredActive(db, proc[p].user)))
                => proc'[p].res = "Refused"
             /\ (proc'[p].op \in StaffEndpoints
                  /\ (StoredRole(db, proc[p].user) \notin {"admin", "moder"}
                       \/ ~StoredActive(db, proc[p].user)))
                => proc'[p].res = "Refused"]_vars

====
